---- MODULE Spec2Model ----
(***************************************************************************)
(* Trace database (core/src/db.rs) and ingest loop (server/src/main.rs)    *)
(* of koradar, as a state machine.                                         *)
(*                                                                         *)
(* A Change is a record [address, data, clnum, flags, size]: `flags' is    *)
(* the set of ChangeFlags bits that are set, `size' the low byte           *)
(* (SIZE_MASK) of the u32 flags word.  An Option<T> is a sequence of       *)
(* length 0 (None) or 1 (Some).  A DashMap is a function whose DOMAIN is   *)
(* the set of keys present.  A String is a sequence of one-character       *)
(* strings where the code looks inside it, a TLA+ string otherwise.        *)
(***************************************************************************)
EXTENDS Integers, Sequences, FiniteSets, TLC

VARIABLES
    changes,              \* TraceDB.changes: Vec<Change>
    memory,               \* TraceDB.memory: Address -> MemoryCell
    registers,            \* TraceDB.registers: Vec<Vec<(Clnum, u64)>>
    access_index,         \* TraceDB.access_index: (Address, 'R'|'W') -> Vec<Clnum>
    instructions,         \* TraceDB.instructions: Clnum -> bytes
    instructions_disasm,  \* TraceDB.instructions_disasm: Clnum -> String
    entry_point,          \* TraceDB.entry_point: Option<u64>
    bias,                 \* TraceDB.bias: i64
    user_code_ranges,     \* TraceDB.user_code_ranges: Vec<(u64, u64)>
    max_clnum,            \* AppState.max_clnum: AtomicU32
    conns,                \* ingest tasks: connection -> [state, line, current_clnum]
    tx,                   \* messages handed to the broadcast sender, in order
    ws,                   \* the WebSocket client's handler task: [state, sent, rx]
    ipc,                  \* ingest tasks inside a loop iteration: connection -> [pc, event]
    query,                \* the handler's request in progress: [pc, locals, held locks]
    insn_cache,           \* TraceDB.insn_cache: (Address, bytes) -> String
    hist                  \* history of the calls made so far (not program state)

dbvars == <<changes, memory, registers, access_index, instructions,
            instructions_disasm, entry_point, bias, user_code_ranges>>
taskvars == <<ipc, query, insn_cache>>
srvvars == <<max_clnum, conns, tx, ws, ipc, query, insn_cache>>
vars == <<changes, memory, registers, access_index, instructions,
          instructions_disasm, entry_point, bias, user_code_ranges, max_clnum, conns, tx,
          ws, ipc, query, insn_cache, hist>>

(***************************************************************************)
(* Bounds of the model.                                                    *)
(***************************************************************************)
MaxLog == 3
MaxClnum == 3
MaxLoads == 2
MaxEvents == 3
MaxConns == 2
MaxCalls == 5
MaxRanges == 1
MaxTrace == 5
MaxUnknown == 1
MaxReplies == 1
MaxInsns == 3
MaxBurst == 51

(***************************************************************************)
(* Program constants.                                                      *)
(***************************************************************************)
REG_COUNT == 16

\* u64 addresses are narrowed to 31 bits: the loader cut-off of the bias
\* heuristic, 0x7000_0000_0000, is scaled to 0x7000000.
LOADER_CUTOFF == 117440512
PAGE_SIZE == 4096

\* u32::MAX, narrowed to the 31 bits of the checker's integers
U32_MAX == 2147483647

None == <<>>
Some(v) == <<v>>

Last(s) == s[Len(s)]
Range(s) == {s[i] : i \in 1..Len(s)}
Pow256(i) == 256 ^ i

IS_WRITE == "IS_WRITE"
IS_MEM == "IS_MEM"
IS_START == "IS_START"
IS_VALID == "IS_VALID"

\* struct Change; `flags' is the set of flag bits that are on and `size' the
\* value of flags & SIZE_MASK (the access size in bits)
Change(address, data, clnum, flags, size) ==
    [address |-> address, data |-> data, clnum |-> clnum, flags |-> flags, size |-> size]

DefaultCell == [static_value |-> None, history |-> <<>>]

(***************************************************************************)
(* slice::partition_point: binary search for the first index (0-based)     *)
(* whose element has clnum > c, in a history partitioned by clnum <= c.    *)
(***************************************************************************)
RECURSIVE partition_search(_, _, _, _)
partition_search(history, clnum, left, right) ==
    IF left >= right THEN left
    ELSE LET mid == left + ((right - left) \div 2)
         IN IF history[mid + 1][1] <= clnum
            THEN partition_search(history, clnum, mid + 1, right)
            ELSE partition_search(history, clnum, left, mid)

\* the search with the comparison c < clnum in place of c <= clnum
partition_point_lt(history, clnum) ==
    Cardinality({i \in 1..Len(history) : history[i][1] < clnum})

partition_point(history, clnum) == partition_search(history, clnum, 0, Len(history))

\* MemoryCell::get_value_at
get_value_at(cell, clnum) ==
    LET idx == partition_point(cell.history, clnum)
    IN IF idx = 0 THEN cell.static_value ELSE Some(cell.history[idx][2])

\* TraceDB::get_memory_at on an explicit memory map
memory_at(mem, clnum, addr, size) ==
    [i \in 1..size |->
        LET a == addr + (i - 1)
            val == IF a \in DOMAIN mem THEN get_value_at(mem[a], clnum) ELSE None
        IN IF val = None THEN 0 ELSE val[1]]

get_memory_at(clnum, addr, size) == memory_at(memory, clnum, addr, size)

\* TraceDB::get_memory_writes
get_memory_writes(address) ==
    IF address \in DOMAIN memory
    THEN [i \in 1..Len(memory[address].history) |-> memory[address].history[i][1]]
    ELSE <<>>

\* TraceDB::get_registers_at
get_registers_at(clnum) ==
    [r \in 1..Len(registers) |->
        LET idx == partition_point(registers[r], clnum)
        IN IF idx = 0 THEN 0 ELSE registers[r][idx][2]]

(***************************************************************************)
(* State updates of the TraceDB methods, as functions of the field they    *)
(* change, so that a handler calling several of them is one action.        *)
(***************************************************************************)
cell_of(mem, a) == IF a \in DOMAIN mem THEN mem[a] ELSE DefaultCell

\* load_static_memory: entry(addr).or_default().static_value = Some(byte)
static_loaded(mem, start_addr, data) ==
    LET touched == {start_addr + (i - 1) : i \in 1..Len(data)}
    IN [a \in DOMAIN mem \cup touched |->
          IF a \in touched
          THEN [cell_of(mem, a) EXCEPT !.static_value = Some(data[a - start_addr + 1])]
          ELSE mem[a]]

write_size(change) == change.size \div 8

\* the payload never shifted: every byte is the low byte
write_byte_low(change, i) == change.data % 256

write_byte(change, i) == (change.data \div Pow256(i)) % 256

\* add_change, step 2, memory write: one (clnum, byte) per written byte
memory_changed(mem, change) ==
    IF IS_MEM \in change.flags /\ IS_WRITE \in change.flags
    THEN LET touched == {change.address + i : i \in 0..(write_size(change) - 1)}
         IN [a \in DOMAIN mem \cup touched |->
               IF a \in touched
               THEN [cell_of(mem, a) EXCEPT !.history =
                        Append(@, <<change.clnum, write_byte(change, a - change.address)>>)]
               ELSE mem[a]]
    ELSE mem

\* add_change, step 2, register write
registers_changed(regs, change) ==
    IF IS_MEM \notin change.flags /\ IS_WRITE \in change.flags
    THEN LET reg_idx == change.address \div 8
         IN IF reg_idx < Len(regs)
            THEN [regs EXCEPT ![reg_idx + 1] = Append(@, <<change.clnum, change.data>>)]
            ELSE regs
    ELSE regs

\* add_change, step 3, reverse index
index_changed(idx, change) ==
    LET key == <<change.address, IF IS_WRITE \in change.flags THEN "W" ELSE "R">>
    IN [k \in DOMAIN idx \cup {key} |->
          IF k = key
          THEN Append(IF k \in DOMAIN idx THEN idx[k] ELSE <<>>, change.clnum)
          ELSE idx[k]]

\* update_registers: grow the table, record a value only when it changed
RECURSIVE grown(_, _)
grown(regs, n) == IF Len(regs) < n THEN grown(Append(regs, <<>>), n) ELSE regs

\* the comparison made against the first recorded value instead of the last
reg_changed_first(history, val) ==
    IF Len(history) > 0 THEN history[1][2] # val ELSE TRUE

reg_changed(history, val) ==
    IF Len(history) > 0 THEN Last(history)[2] # val ELSE TRUE

\* a table that records only the first value seen for a register
registers_updated_once(regs, clnum, new_regs) ==
    LET g == grown(regs, Len(new_regs))
    IN [i \in 1..Len(g) |->
          IF i <= Len(new_regs) /\ g[i] = <<>>
          THEN Append(g[i], <<clnum, new_regs[i]>>)
          ELSE g[i]]

registers_updated(regs, clnum, new_regs) ==
    LET g == grown(regs, Len(new_regs))
    IN [i \in 1..Len(g) |->
          IF i <= Len(new_regs) /\ reg_changed(g[i], new_regs[i])
          THEN Append(g[i], <<clnum, new_regs[i]>>)
          ELSE g[i]]

\* add_instruction / add_instruction_disasm: insert unless empty
instruction_added(insns, clnum, bytes) ==
    IF bytes # <<>>
    THEN [c \in DOMAIN insns \cup {clnum} |-> IF c = clnum THEN bytes ELSE insns[c]]
    ELSE insns

instruction_disasm_added(dis, clnum, disasm) ==
    IF disasm # <<>>
    THEN [c \in DOMAIN dis \cup {clnum} |-> IF c = clnum THEN disasm ELSE dis[c]]
    ELSE dis

(***************************************************************************)
(* The state after TraceDB::new(16) and the server's construction.         *)
(***************************************************************************)
EmptyMap == [x \in {} |-> 0]

InitDBLoaded(ep, ranges) ==
    /\ changes = <<>>
    /\ memory = EmptyMap
    /\ registers = [r \in 1..REG_COUNT |-> <<>>]
    /\ access_index = EmptyMap
    /\ instructions = EmptyMap
    /\ instructions_disasm = EmptyMap
    /\ entry_point = ep
    /\ bias = 0
    /\ user_code_ranges = ranges

InitDBWith(ep) == InitDBLoaded(ep, <<>>)

InitDB == InitDBWith(None)

InitServer ==
    /\ max_clnum = 0
    /\ conns = EmptyMap
    /\ tx = <<>>
    /\ ws = [state |-> "none", sent |-> <<>>, rx |-> 0]
    /\ ipc = EmptyMap
    /\ query = [pc |-> "idle"]
    /\ insn_cache = EmptyMap

InitHist == [statics |-> <<>>, reg_calls |-> <<>>, lines |-> <<>>]

Init ==
    /\ InitDB
    /\ InitServer
    /\ hist = InitHist

(***************************************************************************)
(* API-level actions: one per public TraceDB method.  Calls are made in    *)
(* non-decreasing clnum order (db.rs:290, "assumes strict sequential       *)
(* insertion by clnum").                                                   *)
(***************************************************************************)
LastClnum ==
    LET a == IF changes = <<>> THEN 0 ELSE Last(changes).clnum
        b == IF hist.reg_calls = <<>> THEN 0 ELSE Last(hist.reg_calls).clnum
    IN IF a >= b THEN a ELSE b

CallCount == Len(changes) + Cardinality({i \in 1..Len(hist.reg_calls) : hist.reg_calls[i].op = "update_registers"})

\* the register writes a change asks for, for the history
RegWriteOf(change) ==
    IF IS_MEM \notin change.flags /\ IS_WRITE \in change.flags
    THEN <<[op |-> "add_change", clnum |-> change.clnum,
            writes |-> [r \in {change.address \div 8} |-> change.data]]>>
    ELSE <<>>

load_static_memory(start_addr, data) ==
    /\ Len(hist.statics) < MaxLoads
    /\ memory' = static_loaded(memory, start_addr, data)
    /\ hist' = [hist EXCEPT !.statics = Append(@, [start_addr |-> start_addr, data |-> data])]
    /\ UNCHANGED <<changes, registers, access_index, instructions, instructions_disasm,
                   entry_point, bias, user_code_ranges>>
    /\ UNCHANGED srvvars

add_change(change) ==
    /\ CallCount < MaxLog
    /\ changes' = Append(changes, change)
    /\ memory' = memory_changed(memory, change)
    /\ registers' = registers_changed(registers, change)
    /\ access_index' = index_changed(access_index, change)
    /\ hist' = [hist EXCEPT !.reg_calls = @ \o RegWriteOf(change)]
    /\ UNCHANGED <<instructions, instructions_disasm, entry_point, bias, user_code_ranges>>
    /\ UNCHANGED srvvars

update_registers(clnum, new_regs) ==
    /\ CallCount < MaxLog
    /\ registers' = registers_updated(registers, clnum, new_regs)
    /\ hist' = [hist EXCEPT !.reg_calls = Append(@,
                  [op |-> "update_registers", clnum |-> clnum,
                   writes |-> [r \in 0..(Len(new_regs) - 1) |-> new_regs[r + 1]]])]
    /\ UNCHANGED <<changes, memory, access_index, instructions, instructions_disasm,
                   entry_point, bias, user_code_ranges>>
    /\ UNCHANGED srvvars

(***************************************************************************)
(* Memory specification: a static load and memory accesses in              *)
(* non-decreasing clnum order.                                             *)
(***************************************************************************)
MemAddrs == {1024, 1025}
QueryAddrs == {1023, 1024, 1025, 1026}
StaticImages == {<<170>>, <<170, 238>>}
MemWrites == {[size |-> 8, data |-> 187], [size |-> 8, data |-> 204],
              [size |-> 16, data |-> 61149]}

MemChanges(lo) ==
    {Change(a, w.data, c, {IS_VALID, IS_MEM, IS_WRITE}, w.size) :
        a \in MemAddrs, w \in MemWrites, c \in lo..MaxClnum}
    \cup {Change(1024, 187, c, {IS_VALID, IS_MEM, IS_WRITE}, 4) : c \in lo..MaxClnum}
    \cup {Change(1024, 443, c, {IS_VALID, IS_MEM, IS_WRITE}, 8) : c \in lo..MaxClnum}
    \cup {Change(1024, 287454020, c, {IS_VALID, IS_MEM, IS_WRITE}, 32) : c \in lo..MaxClnum}
    \cup {Change(1024, 0, c, {IS_VALID, IS_MEM}, 8) : c \in lo..MaxClnum}

NextMem ==
    \/ \E img \in StaticImages : load_static_memory(1024, img)
    \/ \E ch \in MemChanges(IF LastClnum = 0 THEN 1 ELSE LastClnum) : add_change(ch)

SpecMem == Init /\ [][NextMem]_vars

\* What the log and the static loads say about byte a at clnum c.
Covers(ch, a) ==
    /\ IS_MEM \in ch.flags /\ IS_WRITE \in ch.flags
    /\ ch.address <= a /\ a < ch.address + (ch.size \div 8)

WritesUpTo(c, a) == {i \in 1..Len(changes) : Covers(changes[i], a) /\ changes[i].clnum <= c}

MaxOf(S) == CHOOSE x \in S : \A y \in S : y <= x

StaticsOf(a) ==
    {i \in 1..Len(hist.statics) :
        /\ hist.statics[i].start_addr <= a
        /\ a < hist.statics[i].start_addr + Len(hist.statics[i].data)}

ExpectedByte(c, a) ==
    IF WritesUpTo(c, a) # {}
    THEN LET i == MaxOf(WritesUpTo(c, a))
         IN (changes[i].data \div Pow256(a - changes[i].address)) % 256
    ELSE IF StaticsOf(a) # {}
         THEN LET j == MaxOf(StaticsOf(a))
              IN hist.statics[j].data[a - hist.statics[j].start_addr + 1]
         ELSE 0

\* C1: at every clnum c and byte address a, get_memory_at(c, a, 1) is the
\* byte written to a by the covering memory write with the largest clnum <= c
\* (the latest appended of them), else the static initializer of a, else 0.
C1_MemoryAt ==
    \A c \in 0..MaxClnum, a \in QueryAddrs :
        get_memory_at(c, a, 1) = <<ExpectedByte(c, a)>>

\* static AA at 0x400, then writes BB and CC at later clnums: AA before the
\* first write, BB from it up to the second, CC from the second on.
C1_Witness ==
    /\ Len(hist.statics) = 1 /\ hist.statics[1].data[1] = 170
    /\ Len(changes) = 2
    /\ changes[1].clnum = 2 /\ changes[1].data = 187 /\ Covers(changes[1], 1024)
    /\ changes[2].clnum = 3 /\ changes[2].data = 204 /\ Covers(changes[2], 1024)
    /\ get_memory_at(1, 1024, 1) = <<170>>
    /\ get_memory_at(2, 1024, 1) = <<187>>
    /\ get_memory_at(3, 1024, 1) = <<204>>

IsStrictlyAscending(s) == \A i \in 1..(Len(s) - 1) : s[i] < s[i + 1]

\* C6: for every byte address a, get_memory_writes(a) lists exactly the
\* clnums of the MEM+WRITE changes whose byte range covers a, ascending, each
\* clnum once.
C6_MemoryWrites ==
    \A a \in QueryAddrs :
        /\ Range(get_memory_writes(a)) = {changes[i].clnum : i \in WritesUpTo(MaxClnum, a)}
        /\ IsStrictlyAscending(get_memory_writes(a))

(***************************************************************************)
(* Register specification: register-write changes and register snapshots   *)
(* in non-decreasing clnum order.                                          *)
(***************************************************************************)
RegChanges(lo) ==
    {Change(a, d, c, {IS_VALID, IS_WRITE}, 0) : a \in {0, 11, 128}, d \in {5, 7}, c \in lo..MaxClnum}
    \cup {Change(4096, 0, c, {IS_VALID, IS_START}, 0) : c \in lo..MaxClnum}

Snapshots == {<<5>>, <<7, 5>>, <<5, 5>>}

NextReg ==
    \/ \E ch \in RegChanges(IF LastClnum = 0 THEN 1 ELSE LastClnum) : add_change(ch)
    \/ \E c \in (IF LastClnum = 0 THEN 1 ELSE LastClnum)..MaxClnum, regs \in Snapshots :
          update_registers(c, regs)

SpecReg == Init /\ [][NextReg]_vars

RegWritesUpTo(c, r) ==
    {i \in 1..Len(hist.reg_calls) :
        hist.reg_calls[i].clnum <= c /\ r \in DOMAIN hist.reg_calls[i].writes}

ExpectedReg(c, r) ==
    IF RegWritesUpTo(c, r) # {}
    THEN hist.reg_calls[MaxOf(RegWritesUpTo(c, r))].writes[r]
    ELSE 0

\* C2: at every clnum c and register index r < N, get_registers_at(c)[r] is
\* the value of the register-r write (add_change or update_registers) with
\* the largest clnum <= c, the latest of them, and 0 if there is none.
C2_RegistersAt ==
    \A c \in 0..MaxClnum :
        /\ Len(get_registers_at(c)) >= REG_COUNT
        /\ \A r \in 0..(REG_COUNT - 1) : get_registers_at(c)[r + 1] = ExpectedReg(c, r)

CallWrites(i, c, r, v) ==
    /\ hist.reg_calls[i].clnum = c
    /\ r \in DOMAIN hist.reg_calls[i].writes
    /\ hist.reg_calls[i].writes[r] = v

\* register 0 is given 5, then 7, then 5 again, at three clnums, the last by
\* a snapshot that repeats the value of register 1: each is read back.
C2_Witness ==
    /\ Len(hist.reg_calls) = 3
    /\ CallWrites(1, 1, 0, 5) /\ hist.reg_calls[1].op = "add_change"
    /\ CallWrites(2, 2, 0, 7) /\ CallWrites(2, 2, 1, 5)
    /\ CallWrites(3, 3, 0, 5) /\ CallWrites(3, 3, 1, 5)
    /\ Len(registers[2]) = 1
    /\ get_registers_at(0)[1] = 0
    /\ get_registers_at(1)[1] = 5
    /\ get_registers_at(2)[1] = 7
    /\ get_registers_at(3)[1] = 5

(***************************************************************************)
(* The ingest socket (server/src/main.rs): the accept loop spawns one task *)
(* per tracer connection; each task reads lines until end of stream.       *)
(***************************************************************************)
\* serde_json::from_str::<TraceEvent>(&line): the buffer parses when it holds
\* exactly the JSON text of one event.  The buffer is the sequence of the
\* texts read_line has appended to it.
from_str(buffer) ==
    IF Len(buffer) = 1 /\ buffer[1].ok THEN Some(buffer[1].event) ELSE None

\* the counter incremented before the parse result is looked at
clnum_after_any(current_clnum, parsed) == current_clnum + 1

\* current_clnum after a line: incremented only under `if let Ok(event)'
clnum_after(current_clnum, parsed) ==
    IF parsed # None THEN current_clnum + 1 ELSE current_clnum

\* line 192: line.clear() ends every iteration, parsed or not
line_cleared(buffer, parsed) == <<>>

\* the bias heuristic of the InsnExec arm
bias_after(ep, cur, pc) ==
    IF ep # None /\ (pc % PAGE_SIZE) = (ep[1] % PAGE_SIZE)
    THEN LET b == pc - ep[1]
         IN IF cur = 0 /\ b # 0
            THEN (IF pc < LOADER_CUTOFF THEN b ELSE cur)
            ELSE IF b = 0 /\ cur # 0 THEN 0 ELSE cur
    ELSE cur

StartChange(pc, clnum) == Change(pc, 0, clnum, {IS_VALID, IS_START}, 0)

accept(k) ==
    /\ k \notin DOMAIN conns
    /\ Cardinality(DOMAIN conns) < MaxConns
    /\ conns' = [c \in DOMAIN conns \cup {k} |->
                   IF c = k THEN [state |-> "open", line |-> <<>>, current_clnum |-> 0]
                   ELSE conns[c]]
    /\ UNCHANGED <<dbvars, max_clnum, tx, ws, taskvars, hist>>

\* read_line returned Ok(0) (or an error): the task's loop ends
end_of_stream(k) ==
    /\ k \in DOMAIN conns /\ conns[k].state = "open"
    /\ conns' = [conns EXCEPT ![k].state = "closed"]
    /\ UNCHANGED <<dbvars, max_clnum, tx, ws, taskvars, hist>>

\* one iteration of the while loop of connection k on a non-empty line
ingest_step(k, line) ==
    /\ k \in DOMAIN conns /\ conns[k].state = "open"
    /\ LET buffer == conns[k].line \o <<line>>
           parsed == from_str(buffer)
           current_clnum == clnum_after(conns[k].current_clnum, parsed)
       IN /\ conns' = [conns EXCEPT ![k].current_clnum = current_clnum,
                                    ![k].line = line_cleared(buffer, parsed)]
          /\ IF parsed = None
             THEN UNCHANGED <<dbvars, max_clnum, tx>>
             ELSE LET event == parsed[1]
                  IN /\ max_clnum' = current_clnum
                     /\ tx' = tx \o <<[type |-> "TraceEvent", event |-> event],
                                      [type |-> "MaxClnum", max |-> current_clnum]>>
                     /\ IF event.kind = "InsnExec"
                        THEN LET change == StartChange(event.pc, current_clnum)
                             IN /\ bias' = bias_after(entry_point, bias, event.pc)
                                /\ instructions' =
                                      instruction_added(instructions, current_clnum, event.bytes)
                                /\ instructions_disasm' =
                                      IF event.disasm # None
                                      THEN instruction_disasm_added(instructions_disasm,
                                                                    current_clnum, event.disasm[1])
                                      ELSE instructions_disasm
                                /\ registers' =
                                      registers_changed(
                                          IF event.regs # <<>>
                                          THEN registers_updated(registers, current_clnum, event.regs)
                                          ELSE registers,
                                          change)
                                /\ changes' = Append(changes, change)
                                /\ memory' = memory_changed(memory, change)
                                /\ access_index' = index_changed(access_index, change)
                                /\ UNCHANGED <<entry_point, user_code_ranges>>
                        ELSE UNCHANGED dbvars
    /\ hist' = [hist EXCEPT !.lines = Append(@, [conn |-> k, line |-> line])]
    /\ UNCHANGED <<ws, taskvars>>

ingest_line(k, line) == Len(hist.lines) < MaxEvents /\ ingest_step(k, line)

InsnExec(pc, bytes, disasm, regs) ==
    [kind |-> "InsnExec", pc |-> pc, bytes |-> bytes, disasm |-> disasm, regs |-> regs]

RegSnapshot(rax) == [r \in 1..REG_COUNT |-> IF r = 1 THEN rax ELSE 0]

Events ==
    {[kind |-> "Init"], [kind |-> "Exit"],
     [kind |-> "MemAccess", vaddr |-> 1024, is_store |-> TRUE, value |-> 0],
     InsnExec(4198964, <<144>>, None, RegSnapshot(1)),
     InsnExec(88085044, <<>>, Some(<<"n", "o", "p">>), <<>>),
     InsnExec(4198965, <<72, 137, 216>>, None, RegSnapshot(2))}

Lines ==
    {[ok |-> TRUE, event |-> e] : e \in Events}
    \cup {[ok |-> FALSE, event |-> InsnExec(4198964, <<144>>, None, RegSnapshot(1))]}

\* the binary loader has run, and set the entry point, or has failed, before
\* the ingest socket is bound
InitIngest ==
    /\ \E loaded \in {<<None, <<>>>>, <<Some(4198964), <<>>>>,
                       <<Some(4198964), <<<<4198400, 4202496>>>>>>} :
          InitDBLoaded(loaded[1], loaded[2])
    /\ InitServer
    /\ hist = InitHist

NextIngest ==
    \/ \E k \in 1..MaxConns : accept(k)
    \/ \E k \in 1..MaxConns : end_of_stream(k)
    \/ \E k \in 1..MaxConns, line \in Lines : ingest_line(k, line)

SpecIngest == InitIngest /\ [][NextIngest]_vars

StartChanges == {i \in 1..Len(changes) : IS_START \in changes[i].flags}

LinesOf(k) == {i \in 1..Len(hist.lines) : hist.lines[i].conn = k}
InsnLinesOf(k) ==
    {i \in LinesOf(k) : hist.lines[i].line.ok /\ hist.lines[i].line.event.kind = "InsnExec"}
ParsedLinesOf(k) == {i \in LinesOf(k) : hist.lines[i].line.ok}

\* C3: when the only tracer connection has reached the end of a stream with
\* exactly N InsnExec records, max_clnum = N and the log holds exactly N
\* START changes, with clnums 1..N.
C3_IngestCount ==
    \A k \in DOMAIN conns :
        (DOMAIN conns = {k} /\ conns[k].state = "closed") =>
            LET N == Cardinality(InsnLinesOf(k))
            IN /\ max_clnum = N
               /\ Cardinality(StartChanges) = N
               /\ {changes[i].clnum : i \in StartChanges} = 1..N

\* C4: no two START changes of the log carry the same clnum.
C4_ClnumsNeverReused ==
    \A i, j \in StartChanges : i # j => changes[i].clnum # changes[j].clnum

MalformedStep ==
    /\ Len(hist'.lines) = Len(hist.lines) + 1
    /\ ~Last(hist'.lines).line.ok

CountersOf(c) == [k \in DOMAIN c |-> c[k].current_clnum]

LowerOf ==
    [ch \in {"R", "A", "X", "B", "C", "D", "S", "I", "P"} |->
        CASE ch = "R" -> "r" [] ch = "A" -> "a" [] ch = "X" -> "x" [] ch = "B" -> "b"
          [] ch = "C" -> "c" [] ch = "D" -> "d" [] ch = "S" -> "s" [] ch = "I" -> "i"
          [] ch = "P" -> "p"]

to_lowercase(str) ==
    [i \in 1..Len(str) |-> IF str[i] \in DOMAIN LowerOf THEN LowerOf[str[i]] ELSE str[i]]

\* the reg_map literal of get_slice
reg_map ==
    [name \in {<<"r", "a", "x">>, <<"r", "b", "x">>, <<"r", "c", "x">>, <<"r", "d", "x">>,
               <<"r", "s", "i">>, <<"r", "d", "i">>, <<"r", "b", "p">>, <<"r", "s", "p">>,
               <<"r", "8">>, <<"r", "9">>, <<"r", "1", "0">>, <<"r", "1", "1">>,
               <<"r", "1", "2">>, <<"r", "1", "3">>, <<"r", "1", "4">>, <<"r", "1", "5">>} |->
        CASE name = <<"r", "a", "x">> -> 0 [] name = <<"r", "b", "x">> -> 1
          [] name = <<"r", "c", "x">> -> 2 [] name = <<"r", "d", "x">> -> 3
          [] name = <<"r", "s", "i">> -> 4 [] name = <<"r", "d", "i">> -> 5
          [] name = <<"r", "b", "p">> -> 6 [] name = <<"r", "s", "p">> -> 7
          [] name = <<"r", "8">> -> 8 [] name = <<"r", "9">> -> 9
          [] name = <<"r", "1", "0">> -> 10 [] name = <<"r", "1", "1">> -> 11
          [] name = <<"r", "1", "2">> -> 12 [] name = <<"r", "1", "3">> -> 13
          [] name = <<"r", "1", "4">> -> 14 [] name = <<"r", "1", "5">> -> 15]

\* char::to_digit(16)
HexValue ==
    [ch \in {"0", "1", "2", "3", "4", "5", "6", "7", "8", "9",
             "a", "b", "c", "d", "e", "f", "A", "B", "C", "D", "E", "F"} |->
        CASE ch = "0" -> 0 [] ch = "1" -> 1 [] ch = "2" -> 2 [] ch = "3" -> 3
          [] ch = "4" -> 4 [] ch = "5" -> 5 [] ch = "6" -> 6 [] ch = "7" -> 7
          [] ch = "8" -> 8 [] ch = "9" -> 9
          [] ch \in {"a", "A"} -> 10 [] ch \in {"b", "B"} -> 11 [] ch \in {"c", "C"} -> 12
          [] ch \in {"d", "D"} -> 13 [] ch \in {"e", "E"} -> 14 [] ch \in {"f", "F"} -> 15]

RECURSIVE digits_value(_, _)
digits_value(digits, acc) ==
    IF digits = <<>> THEN Some(acc)
    ELSE IF Head(digits) \in DOMAIN HexValue
         THEN digits_value(Tail(digits), acc * 16 + HexValue[Head(digits)])
         ELSE None

\* the digits u64::from_str_radix converts: it skips one leading "+"
radix_digits(src) == IF Head(src) = "+" THEN Tail(src) ELSE src

\* u64::from_str_radix(src, 16): empty input and a lone sign are errors, a
\* leading "+" is accepted, every other character must be a hex digit.  (The
\* overflow error needs more than 16 digits; targets here are shorter.)
from_str_radix(src) ==
    IF src = <<>> THEN None
    ELSE IF Len(src) = 1 /\ Head(src) \in {"+", "-"} THEN None
    ELSE digits_value(radix_digits(src), 0)

starts_with_0x(target) == Len(target) >= 2 /\ target[1] = "0" /\ target[2] = "x"

\* get_slice, lines 488-505: the initial taint sets
initial_taint(target) ==
    IF starts_with_0x(target)
    THEN LET addr == from_str_radix(SubSeq(target, 3, Len(target)))
         IN [regs |-> {}, mem |-> IF addr # None THEN {addr[1]} ELSE {}]
    ELSE LET name == to_lowercase(target)
         IN [regs |-> IF name \in DOMAIN reg_map THEN {reg_map[name]} ELSE {}, mem |-> {}]

(***************************************************************************)
(* Disassembler::get_read_registers, for the encodings the model feeds it: *)
(* the implicit reads Capstone reports plus base and index of a memory     *)
(* operand, of the first instruction decoded from the bytes.               *)
(***************************************************************************)
LEA_RAX_RBX_RCX == <<72, 141, 4, 11>>               \* lea rax, [rbx + rcx]
MOV_RBX_MEM == <<72, 139, 28, 37, 0, 1, 0, 0>>      \* mov rbx, [0x100]
MOV_RCX_IMM == <<72, 199, 193, 7, 0, 0, 0>>         \* mov rcx, 7

HasPrefix(bytes, pre) == Len(bytes) >= Len(pre) /\ SubSeq(bytes, 1, Len(pre)) = pre

get_read_registers(bytes, pc) ==
    IF HasPrefix(bytes, LEA_RAX_RBX_RCX) THEN {1, 2}
    ELSE IF HasPrefix(bytes, MOV_RBX_MEM) THEN {}
    ELSE IF HasPrefix(bytes, MOV_RCX_IMM) THEN {}
    ELSE IF HasPrefix(bytes, <<0, 0>>) THEN {0}      \* add byte ptr [rax], al
    ELSE {}

(***************************************************************************)
(* The reverse walk.  A walk state holds the locals of get_slice; `steps'  *)
(* keeps, for every group processed, what the taint sets were then.        *)
(***************************************************************************)
IsRegWrite(ch) == IS_WRITE \in ch.flags /\ IS_MEM \notin ch.flags
IsMemWrite(ch) == IS_WRITE \in ch.flags /\ IS_MEM \in ch.flags
IsMemRead(ch) == IS_MEM \in ch.flags /\ IS_WRITE \notin ch.flags

written_regs(group, tainted_regs) ==
    {ch.address \div 8 : ch \in {g \in Range(group) : IsRegWrite(g) /\ (g.address \div 8) \in tainted_regs}}

written_mem(group, tainted_mem) ==
    {ch.address : ch \in {g \in Range(group) : IsMemWrite(g) /\ g.address \in tainted_mem}}

\* the first START change of the group, else 0
group_pc(group) ==
    LET starts == {i \in 1..Len(group) : IS_START \in group[i].flags}
    IN IF starts = {} THEN 0
       ELSE group[CHOOSE i \in starts : \A j \in starts : i <= j].address

\* lines 567-589: the register inputs of a relevant group
register_inputs(insns, mem, b, clnum, group) ==
    LET pc == group_pc(group)
    IN IF pc # 0
       THEN LET bytes == IF clnum \in DOMAIN insns THEN insns[clnum]
                         ELSE memory_at(mem, clnum, pc - b, 16)
            IN IF bytes # <<>> THEN get_read_registers(bytes, pc) ELSE {}
       ELSE {}

\* the sentinel test of the grouping logic
is_sentinel(processed_clnum) == processed_clnum = U32_MAX

\* lines 529-595: process the group collected so far, clear it, break when
\* nothing is tainted any more
process_group(st, insns, mem, b) ==
    LET clnum == st.processed_clnum
        group == st.current_changes
        wr == written_regs(group, st.tainted_regs)
        wm == written_mem(group, st.tainted_mem)
        relevant == wr # {} \/ wm # {}
        reads == {ch.address : ch \in {g \in Range(group) : IsMemRead(g)}}
        inputs == register_inputs(insns, mem, b, clnum, group)
        regs1 == IF relevant THEN (st.tainted_regs \ wr) \cup inputs ELSE st.tainted_regs
        mem1 == IF relevant THEN (st.tainted_mem \ wm) \cup reads ELSE st.tainted_mem
    IN [st EXCEPT !.slice = IF relevant THEN Append(@, clnum) ELSE @,
                  !.tainted_regs = regs1,
                  !.tainted_mem = mem1,
                  !.current_changes = <<>>,
                  !.broke = (regs1 = {} /\ mem1 = {}),
                  !.steps = Append(@, [clnum |-> clnum, group |-> group,
                                       tainted_regs |-> st.tainted_regs,
                                       tainted_mem |-> st.tainted_mem,
                                       relevant |-> relevant,
                                       reg_inputs |-> IF relevant THEN inputs ELSE {}])]

\* a walk that looks at every change, whatever its clnum
skipped_never(change, start_clnum) == FALSE

\* line 524: changes after the start clnum are skipped
skipped(change, start_clnum) == change.clnum > start_clnum

\* lines 523-600: the body of the for loop for one change
walk_step(st, change, start_clnum, insns, mem, b) ==
    IF skipped(change, start_clnum) THEN st
    ELSE LET st1 == IF change.clnum # st.processed_clnum
                    THEN LET st0 == IF st.current_changes # <<>> /\ ~is_sentinel(st.processed_clnum)
                                    THEN process_group(st, insns, mem, b)
                                    ELSE st
                         IN IF st0.broke THEN st0
                            ELSE [st0 EXCEPT !.processed_clnum = change.clnum]
                    ELSE st
         IN IF st1.broke THEN st1
            ELSE [st1 EXCEPT !.current_changes = Append(@, change)]

RECURSIVE walk(_, _, _, _, _, _, _)
walk(log, i, st, start_clnum, insns, mem, b) ==
    IF i = 0 \/ st.broke THEN st
    ELSE walk(log, i - 1, walk_step(st, log[i], start_clnum, insns, mem, b),
              start_clnum, insns, mem, b)

\* lines 601-626: the last group
last_group(st) ==
    IF st.current_changes # <<>> /\ ~is_sentinel(st.processed_clnum)
    THEN LET relevant == \/ written_regs(st.current_changes, st.tainted_regs) # {}
                         \/ written_mem(st.current_changes, st.tainted_mem) # {}
         IN [st EXCEPT !.slice = IF relevant THEN Append(@, st.processed_clnum) ELSE @,
                       !.steps = Append(@, [clnum |-> st.processed_clnum,
                                            group |-> st.current_changes,
                                            tainted_regs |-> st.tainted_regs,
                                            tainted_mem |-> st.tainted_mem,
                                            relevant |-> relevant,
                                            reg_inputs |-> {}])]
    ELSE st

Reverse(s) == [i \in 1..Len(s) |-> s[Len(s) + 1 - i]]

\* get_slice on an explicit database: the final walk state, slice reversed
slice_run(log, insns, mem, b, start_clnum, target) ==
    LET taint == initial_taint(target)
        st0 == [tainted_regs |-> taint.regs, tainted_mem |-> taint.mem,
                processed_clnum |-> U32_MAX, current_changes |-> <<>>,
                slice |-> <<>>, broke |-> FALSE, steps |-> <<>>]
        st == last_group(walk(log, Len(log), st0, start_clnum, insns, mem, b))
    IN [st EXCEPT !.slice = Reverse(@)]

get_slice(start_clnum, target) ==
    slice_run(changes, instructions, memory, bias, start_clnum, target).slice

(***************************************************************************)
(* Slicer specification: a log of instruction starts, register writes and  *)
(* memory accesses in non-decreasing clnum order, instruction bytes for    *)
(* some clnums, and a static image at the traced program counter.          *)
(***************************************************************************)
add_instruction(clnum, bytes) ==
    /\ instructions' = instruction_added(instructions, clnum, bytes)
    /\ instructions' # instructions
    /\ UNCHANGED <<changes, memory, registers, access_index, instructions_disasm,
                   entry_point, bias, user_code_ranges, hist>>
    /\ UNCHANGED srvvars

set_bias(b) ==
    /\ b # bias
    /\ bias' = b
    /\ UNCHANGED <<changes, memory, registers, access_index, instructions,
                   instructions_disasm, entry_point, user_code_ranges, hist>>
    /\ UNCHANGED srvvars

SliceClnums == 1..(MaxClnum - 1) \cup {U32_MAX}
QueryClnums == 0..(MaxClnum - 1) \cup {U32_MAX}

SliceChanges(lo) ==
    {Change(4096, 0, c, {IS_VALID, IS_START}, 0) : c \in {x \in SliceClnums : x >= lo}}
    \cup {Change(a, 1, c, {IS_VALID, IS_WRITE}, 0) : a \in {0, 8}, c \in {x \in SliceClnums : x >= lo}}
    \cup {Change(255, 61149, c, {IS_VALID, IS_MEM, IS_WRITE}, 16) : c \in {x \in SliceClnums : x >= lo}}
    \cup {Change(256, 0, c, {IS_VALID, IS_MEM}, 8) : c \in {x \in SliceClnums : x >= lo}}

SliceTargets ==
    {<<"r", "a", "x">>, <<"R", "b", "x">>, <<"0", "x", "f", "f">>, <<"0", "x", "1", "0", "0">>,
     <<"0", "x", "+", "f", "f">>, <<"0", "x">>, <<"r", "i", "p">>, <<>>}

\* the calls that built the database: one per change, per instruction, per
\* static image, and one for a bias that is set
SliceCalls ==
    Len(changes) + Cardinality(DOMAIN instructions) + Len(hist.statics)
    + (IF bias = 0 THEN 0 ELSE 1)

NextSlice ==
    \/ SliceCalls < MaxCalls /\ \E ch \in SliceChanges(LastClnum) : add_change(ch)
    \/ SliceCalls < MaxCalls /\ \E c \in 1..(MaxClnum - 1) : add_instruction(c, LEA_RAX_RBX_RCX)
    \/ SliceCalls < MaxCalls /\ load_static_memory(4096, LEA_RAX_RBX_RCX)
    \/ SliceCalls < MaxCalls /\ \E b \in {0, 4096} : set_bias(b)

SpecSlice == Init /\ [][NextSlice]_vars

SliceRun(c0, t) == slice_run(changes, instructions, memory, bias, c0, t)

\* a change of clnum k writes a location that is in the taint sets of step
TaintedWriteAt(k, step) ==
    \E i \in 1..Len(changes) :
        /\ changes[i].clnum = k
        /\ \/ IsMemWrite(changes[i]) /\ changes[i].address \in step.tainted_mem
           \/ IsRegWrite(changes[i]) /\ (changes[i].address \div 8) \in step.tainted_regs

\* C7: every clnum that get_slice(c0, t) returns is <= c0 and is the clnum
\* of a group with a WRITE change whose register or address was tainted when
\* the reverse walk processed that group.
C7_SliceSound ==
    \A c0 \in QueryClnums, t \in SliceTargets :
        LET run == SliceRun(c0, t)
        IN \A k \in Range(run.slice) :
              /\ k <= c0
              /\ \E j \in 1..Len(run.steps) :
                    run.steps[j].clnum = k /\ TaintedWriteAt(k, run.steps[j])

\* the bytes a memory access touches
BytesOf(ch) == {ch.address + i : i \in 0..((ch.size \div 8) - 1)}

\* change i, before clnum kg, is the definition of memory byte b or of
\* register r that reaches the group of clnum kg
ReachingMemWrite(i, b, kg) ==
    /\ changes[i].clnum < kg /\ IsMemWrite(changes[i]) /\ b \in BytesOf(changes[i])
    /\ \A m \in (i + 1)..Len(changes) :
          ~(changes[m].clnum < kg /\ IsMemWrite(changes[m]) /\ b \in BytesOf(changes[m]))

ReachingRegWrite(i, r, kg) ==
    /\ changes[i].clnum < kg /\ IsRegWrite(changes[i]) /\ changes[i].address \div 8 = r
    /\ \A m \in (i + 1)..Len(changes) :
          ~(changes[m].clnum < kg /\ IsRegWrite(changes[m]) /\ changes[m].address \div 8 = r)

\* C8: the slice is chronological, and a group whose write defines a
\* register or a memory byte that an already-relevant later group reads is
\* reported too.
C8_SliceFollowsDependences ==
    \A c0 \in QueryClnums, t \in SliceTargets :
        LET run == SliceRun(c0, t)
        IN /\ \A x, y \in 1..Len(run.slice) : x < y => run.slice[x] < run.slice[y]
           /\ \A j \in 1..Len(run.steps), i \in 1..Len(changes) :
                 LET step == run.steps[j]
                     reads == UNION {BytesOf(g) : g \in {x \in Range(step.group) : IsMemRead(x)}}
                 IN (/\ step.relevant
                     /\ \/ \E b \in reads : ReachingMemWrite(i, b, step.clnum)
                        \/ \E r \in step.reg_inputs : ReachingRegWrite(i, r, step.clnum))
                    => changes[i].clnum \in Range(run.slice)

\* what get_slice may look at, for a start clnum c0
LogPrefix(log, c0) == SelectSeq(log, LAMBDA ch : ch.clnum <= c0)
InsnsUpTo(insns, c0) == [c \in {x \in DOMAIN insns : x <= c0} |-> insns[c]]
StaticImage(mem) == [a \in DOMAIN mem |-> mem[a].static_value]

SliceAfter(c0, t) == slice_run(changes', instructions', memory', bias', c0, t).slice

SamePrefix(c0) ==
    /\ LogPrefix(changes', c0) = LogPrefix(changes, c0)
    /\ InsnsUpTo(instructions', c0) = InsnsUpTo(instructions, c0)

\* C9 as stated: whenever a call leaves the changes with clnum <= c0 and the
\* instruction bytes of those clnums as they were, get_slice(c0, t) returns
\* what it returned before.
C9_SliceDeterminism ==
    [][\A c0 \in QueryClnums, t \in SliceTargets :
          SamePrefix(c0) => SliceAfter(c0, t) = get_slice(c0, t)]_vars

\* C9 as amended: the same, for databases that also have the same static
\* image and the same bias.
C9_SliceDeterminismSameImage ==
    [][\A c0 \in QueryClnums, t \in SliceTargets :
          (/\ SamePrefix(c0)
           /\ StaticImage(memory') = StaticImage(memory)
           /\ bias' = bias)
          => SliceAfter(c0, t) = get_slice(c0, t)]_vars

\* a slice taken at clnum 1, in a log that has gone on to clnum 2, where the
\* slice of the same register is another one
C9_Witness ==
    /\ Len(changes) = 3
    /\ changes[1].clnum = 1 /\ changes[2].clnum = 2 /\ changes[3].clnum = 2
    /\ 1 \in DOMAIN instructions
    /\ get_slice(1, <<"r", "a", "x">>) = <<1>>
    /\ get_slice(2, <<"r", "a", "x">>) = <<2>>

\* targets that name no register and are no "0x" followed by hex digits
IsRegisterName(t) == to_lowercase(t) \in DOMAIN reg_map
IsHexAddress(t) ==
    /\ Len(t) >= 3 /\ t[1] = "0" /\ t[2] = "x"
    /\ \A i \in 3..Len(t) : t[i] \in DOMAIN HexValue

\* C10: for a target that is neither a register mnemonic nor a well-formed
\* hex address, get_slice returns the empty list, whatever the log and the
\* start clnum.
C10_BadTargetEmptySlice ==
    \A c0 \in QueryClnums, t \in SliceTargets :
        (~IsRegisterName(t) /\ ~IsHexAddress(t)) => get_slice(c0, t) = <<>>

(***************************************************************************)
(* Disassembly texts.  A text is a sequence of characters, since the code  *)
(* looks into it (regex replacement, split_whitespace, slicing).           *)
(***************************************************************************)
TEXT_UNKNOWN == <<"?", "?", "?">>
TEXT_DOTS == <<".", ".", ".">>
TEXT_INVALID == <<"i", "n", "v", "a", "l", "i", "d">>

NOP == <<144>>                                       \* nop
MOV_EAX_EBX == <<137, 216>>                          \* mov eax, ebx
MOV_RAX_RBX == <<72, 137, 216>>                      \* mov rax, rbx
MOV_RAX_VAR == <<72, 139, 69, 240>>                  \* mov rax, qword ptr [rbp - 0x10]

\* Capstone's first decoded instruction of the encodings the model feeds it:
\* mnemonic and operand string
cs_first ==
    [bytes \in {NOP, MOV_EAX_EBX, MOV_RAX_RBX, MOV_RAX_VAR, LEA_RAX_RBX_RCX, <<0, 0>>} |->
        CASE bytes = NOP -> [mnemonic |-> <<"n", "o", "p">>, op_str |-> <<>>]
          [] bytes = MOV_EAX_EBX ->
                [mnemonic |-> <<"m", "o", "v">>,
                 op_str |-> <<"e", "a", "x", ",", " ", "e", "b", "x">>]
          [] bytes = MOV_RAX_RBX ->
                [mnemonic |-> <<"m", "o", "v">>,
                 op_str |-> <<"r", "a", "x", ",", " ", "r", "b", "x">>]
          [] bytes = MOV_RAX_VAR ->
                [mnemonic |-> <<"m", "o", "v">>,
                 op_str |-> <<"r", "a", "x", ",", " ", "q", "w", "o", "r", "d", " ", "p", "t", "r",
                              " ", "[", "r", "b", "p", " ", "-", " ", "0", "x", "1", "0", "]">>]
          [] bytes = LEA_RAX_RBX_RCX ->
                [mnemonic |-> <<"l", "e", "a">>,
                 op_str |-> <<"r", "a", "x", ",", " ", "[", "r", "b", "x", " ", "+", " ",
                              "r", "c", "x", "]">>]
          [] bytes = <<0, 0>> ->
                [mnemonic |-> <<"a", "d", "d">>,
                 op_str |-> <<"b", "y", "t", "e", " ", "p", "t", "r", " ",
                              "[", "r", "a", "x", "]", ",", " ", "a", "l">>]]

\* Disassembler::disassemble: "{mnemonic} {op_str}" of the first instruction,
\* "???" when nothing decodes
cs_disassemble(bytes) ==
    LET known == {e \in DOMAIN cs_first : HasPrefix(bytes, e)}
    IN IF known = {} THEN TEXT_UNKNOWN
       ELSE LET insn == cs_first[CHOOSE e \in known : \A f \in known : Len(f) <= Len(e)]
            IN insn.mnemonic \o <<" ">> \o insn.op_str

IsSpace(ch) == ch \in {" ", "\t"}

\* the index of the first character at or after i that is no white space
RECURSIVE skip_space(_, _)
skip_space(text, i) ==
    IF i <= Len(text) /\ IsSpace(text[i]) THEN skip_space(text, i + 1) ELSE i

\* the index after the hex digits that start at i
RECURSIVE skip_hex(_, _)
skip_hex(text, i) ==
    IF i <= Len(text) /\ text[i] \in DOMAIN HexValue THEN skip_hex(text, i + 1) ELSE i

StartsAt(text, i, pre) ==
    i + Len(pre) - 1 <= Len(text) /\ SubSeq(text, i, i + Len(pre) - 1) = pre

\* a match of \[rbp\s*<sign>\s*0x([0-9a-fA-F]+)\] at index i: the digits and
\* the index after the match, or None
rbp_match(text, i, sign) ==
    IF ~StartsAt(text, i, <<"[", "r", "b", "p">>) THEN None
    ELSE LET j == skip_space(text, i + 4)
         IN IF ~StartsAt(text, j, <<sign>>) THEN None
            ELSE LET k == skip_space(text, j + 1)
                 IN IF ~StartsAt(text, k, <<"0", "x">>) THEN None
                    ELSE LET e == skip_hex(text, k + 2)
                         IN IF e > k + 2 /\ StartsAt(text, e, <<"]">>)
                            THEN Some([digits |-> SubSeq(text, k + 2, e - 1), next |-> e + 1])
                            ELSE None

\* Regex::replace_all of the pattern with `name' followed by the digits
RECURSIVE replace_all(_, _, _, _)
replace_all(text, i, sign, name) ==
    IF i > Len(text) THEN <<>>
    ELSE LET m == rbp_match(text, i, sign)
         IN IF m # None
            THEN name \o m[1].digits \o replace_all(text, m[1].next, sign, name)
            ELSE <<text[i]>> \o replace_all(text, i + 1, sign, name)

\* TraceDB::resolve_stack_vars
resolve_stack_vars(disasm) ==
    replace_all(replace_all(disasm, 1, "-", <<"v", "a", "r", "_">>), 1, "+",
                <<"a", "r", "g", "_">>)

\* TraceDB::disassemble; the instruction cache only memoises the result
disassemble(address, bytes) ==
    IF bytes = <<>> THEN TEXT_DOTS ELSE resolve_stack_vars(cs_disassemble(bytes))

AllZero(bytes) == \A i \in 1..Len(bytes) : bytes[i] = 0

\* TraceDB::get_disassembly_at on an explicit database
disassembly_at(log, insns, dis, mem, clnum) ==
    LET found == {i \in 1..Len(log) : log[i].clnum <= clnum /\ IS_START \in log[i].flags}
    IN IF found = {} THEN TEXT_UNKNOWN
       ELSE LET change == log[CHOOSE i \in found : \A j \in found : j <= i]
                cached == change.clnum \in DOMAIN insns
                          /\ insns[change.clnum] # <<>> /\ ~AllZero(insns[change.clnum])
                static_bytes == memory_at(mem, change.clnum, change.address, 16)
            IN IF cached THEN disassemble(change.address, insns[change.clnum])
               ELSE IF change.clnum \in DOMAIN dis THEN dis[change.clnum]
               ELSE IF ~AllZero(static_bytes) THEN disassemble(change.address, static_bytes)
               ELSE TEXT_UNKNOWN

get_disassembly_at(clnum) ==
    disassembly_at(changes, instructions, instructions_disasm, memory, clnum)

(***************************************************************************)
(* User-code ranges (TraceDB::register_code_range, TraceDB::is_user_code). *)
(***************************************************************************)
\* `as u64' of a difference: a negative value wraps to the top of the address
\* space (2^64, narrowed here to 2^30, above every address of the model)
U64_MODULUS == 1073741824
as_u64(d) == d % U64_MODULUS

range_pushed(ranges, start, size) == Append(ranges, <<start, start + size>>)

\* a range test that takes the end of the range in
in_some_range_closed(ranges, static_addr) ==
    \E i \in 1..Len(ranges) : static_addr >= ranges[i][1] /\ static_addr <= ranges[i][2]

in_some_range(ranges, static_addr) ==
    \E i \in 1..Len(ranges) : static_addr >= ranges[i][1] /\ static_addr < ranges[i][2]

is_user_code(address) ==
    IF user_code_ranges = <<>> THEN TRUE
    ELSE in_some_range(user_code_ranges, as_u64(address - bias))

register_code_range(start, size) ==
    /\ Len(user_code_ranges) < MaxRanges
    /\ user_code_ranges' = range_pushed(user_code_ranges, start, size)
    /\ UNCHANGED <<changes, memory, registers, access_index, instructions,
                   instructions_disasm, entry_point, bias, hist>>
    /\ UNCHANGED srvvars

(***************************************************************************)
(* The control-flow graph (TraceDB::analyze_cfg, core/src/cfg.rs).         *)
(***************************************************************************)
\* the START changes, whatever the filter setting
pc_changes_unfiltered(only_user_code) ==
    SelectSeq(changes, LAMBDA c : IS_START \in c.flags)

\* lines 17-20: the START changes that pass the filter
pc_changes(only_user_code) ==
    SelectSeq(changes, LAMBDA c : IS_START \in c.flags
                                   /\ (~only_user_code \/ is_user_code(c.address)))

\* the instruction of a change has cached bytes, which give its size
has_size(curr) == curr.clnum \in DOMAIN instructions /\ instructions[curr.clnum] # <<>>

\* pass 1, lines 71-79: anything but a known fall-through is a jump
is_jump_pass1(curr, next) ==
    ~(has_size(curr) /\ curr.address + Len(instructions[curr.clnum]) = next.address)

\* pass 1, lines 56-94: the leaders
block_starts(pc) ==
    {pc[1].address}
    \cup {pc[i + 1].address : i \in {j \in 1..(Len(pc) - 1) : is_jump_pass1(pc[j], pc[j + 1])}}

\* pass 2, lines 152-162: a jump is a known size that does not lead to next
is_jump_pass2(pc, i) ==
    /\ i < Len(pc)
    /\ has_size(pc[i])
    /\ pc[i].address + Len(instructions[pc[i].clnum]) # pc[i + 1].address

\* split_whitespace().next(): the first run of characters that are no space
first_token(text) ==
    LET b == skip_space(text, 1)
        e == CHOOSE k \in b..(Len(text) + 1) :
                /\ \A m \in b..(k - 1) : ~IsSpace(text[m])
                /\ (k = Len(text) + 1 \/ IsSpace(text[k]))
    IN IF b > Len(text) THEN None ELSE Some(SubSeq(text, b, e - 1))

\* str::trim
trim(text) ==
    LET keep == {i \in 1..Len(text) : ~IsSpace(text[i])}
    IN IF keep = {} THEN <<>>
       ELSE SubSeq(text, CHOOSE i \in keep : \A j \in keep : i <= j,
                         CHOOSE i \in keep : \A j \in keep : j <= i)

\* HashMap::insert
inserted(map, key, value) ==
    [k \in DOMAIN map \cup {key} |-> IF k = key THEN value ELSE map[k]]

\* lines 109-121: a leader other than the start of the block being built
\* finishes that block
split_before(st, curr, i, starts) ==
    IF curr.address \in starts /\ curr.address # st.current_start
    THEN [st EXCEPT !.final_blocks = inserted(@, st.current_start, st.current_insns),
                    !.final_edges = IF i > 1 THEN @ \cup {<<st.current_start, curr.address>>} ELSE @,
                    !.current_start = curr.address,
                    !.current_insns = <<>>]
    ELSE st

\* a block that lists its instructions latest first
pushed_front(insns, insn) ==
    IF \E k \in 1..Len(insns) : insns[k].address = insn.address THEN insns
    ELSE <<insn>> \o insns

\* lines 168-175: the instruction is pushed unless its address is there
pushed_once(insns, insn) ==
    IF \E k \in 1..Len(insns) : insns[k].address = insn.address THEN insns
    ELSE Append(insns, insn)

\* lines 105-191: the body of the pass-2 loop for pc[i]; slicing the text at
\* the length of the mnemonic panics when the text is shorter than that
build_step(st, pc, i, starts) ==
    LET curr == pc[i]
        st1 == split_before(st, curr, i, starts)
        disassembly == get_disassembly_at(curr.clnum)
        token == first_token(disassembly)
        mnemonic == IF token = None THEN TEXT_UNKNOWN ELSE token[1]
    IN IF Len(mnemonic) > Len(disassembly) THEN [st1 EXCEPT !.panicked = TRUE]
       ELSE LET operands == trim(SubSeq(disassembly, Len(mnemonic) + 1, Len(disassembly)))
                insn == [address |-> curr.address, mnemonic |-> mnemonic, operands |-> operands]
                insns == pushed_once(st1.current_insns, insn)
            IN IF is_jump_pass2(pc, i)
               THEN [st1 EXCEPT !.final_edges = @ \cup {<<st1.current_start, pc[i + 1].address>>},
                                !.final_blocks = inserted(@, st1.current_start, insns),
                                !.current_start = pc[i + 1].address,
                                !.current_insns = <<>>]
               ELSE [st1 EXCEPT !.current_insns = insns]

RECURSIVE build_blocks(_, _, _, _)
build_blocks(st, pc, i, starts) ==
    IF i > Len(pc) \/ st.panicked THEN st
    ELSE build_blocks(build_step(st, pc, i, starts), pc, i + 1, starts)

\* lines 200-201: the keys, sorted
RECURSIVE sorted(_)
sorted(S) ==
    IF S = {} THEN <<>>
    ELSE LET m == CHOOSE x \in S : \A y \in S : x <= y
         IN <<m>> \o sorted(S \ {m})

\* a look-up that answers the first index for every key
index_of_first(seq, x) == 1

IndexOf(seq, x) == CHOOSE i \in 1..Len(seq) : seq[i] = x

\* a build that forgets the block under construction when the trace ends
final_block_dropped(st) == st.final_blocks

\* line 193: the block under construction is inserted when the trace ends
final_block_inserted(st) == inserted(st.final_blocks, st.current_start, st.current_insns)

\* analyze_cfg: the graph it returns, or the panic; `final_blocks' and
\* `final_edges' are kept, keyed by address, as pass 2 left them
analyze_cfg(only_user_code) ==
    LET pc == pc_changes(only_user_code)
    IN IF pc = <<>>
       THEN [panicked |-> FALSE, blocks |-> <<>>, edges |-> {},
             final_blocks |-> EmptyMap, final_edges |-> {}]
       ELSE LET st0 == [final_blocks |-> EmptyMap, final_edges |-> {},
                        current_start |-> pc[1].address, current_insns |-> <<>>,
                        panicked |-> FALSE]
                st == build_blocks(st0, pc, 1, block_starts(pc))
                final_blocks == final_block_inserted(st)
                sorted_starts == sorted(DOMAIN final_blocks)
                kept == {e \in st.final_edges : e[1] \in DOMAIN final_blocks
                                                /\ e[2] \in DOMAIN final_blocks}
            IN IF st.panicked
               THEN [panicked |-> TRUE, blocks |-> <<>>, edges |-> {},
                     final_blocks |-> st.final_blocks, final_edges |-> st.final_edges]
               ELSE [panicked |-> FALSE,
                     blocks |-> [k \in 1..Len(sorted_starts) |->
                                   [index |-> k - 1,
                                    instructions |-> final_blocks[sorted_starts[k]]]],
                     edges |-> {[head |-> IndexOf(sorted_starts, e[1]) - 1,
                                 tail |-> IndexOf(sorted_starts, e[2]) - 1] : e \in kept},
                     final_blocks |-> final_blocks, final_edges |-> st.final_edges]

(***************************************************************************)
(* CFG specification: instructions are recorded as the ingest loop records *)
(* them (bytes, disassembly hint, START change), at the addresses of a     *)
(* small code image; an instruction may come without bytes, and then with  *)
(* a blank hint.  A code range may be registered.                          *)
(***************************************************************************)
\* main.rs, lines 158-173, for the event InsnExec{pc, bytes, disasm, regs: []}
insn_exec(pc, bytes, disasm) ==
    LET clnum == LastClnum + 1
        change == StartChange(pc, clnum)
    IN /\ Len(changes) < MaxTrace
       /\ instructions' = instruction_added(instructions, clnum, bytes)
       /\ instructions_disasm' =
             IF disasm # None
             THEN instruction_disasm_added(instructions_disasm, clnum, disasm[1])
             ELSE instructions_disasm
       /\ changes' = Append(changes, change)
       /\ memory' = memory_changed(memory, change)
       /\ registers' = registers_changed(registers, change)
       /\ access_index' = index_changed(access_index, change)
       /\ UNCHANGED <<entry_point, bias, user_code_ranges, hist>>
       /\ UNCHANGED srvvars

CodeImage ==
    [a \in {256, 257, 258, 260} |-> IF a = 257 THEN NOP ELSE MOV_EAX_EBX]

UnknownCount ==
    Cardinality({i \in 1..Len(changes) : changes[i].clnum \notin DOMAIN instructions})

NextCfg ==
    \/ \E pc \in DOMAIN CodeImage : insn_exec(pc, CodeImage[pc], None)
    \/ UnknownCount < MaxUnknown
       /\ \E pc \in DOMAIN CodeImage, disasm \in {None, Some(<<" ">>)} : insn_exec(pc, <<>>, disasm)
    \/ register_code_range(256, 3)

SpecCfg == Init /\ [][NextCfg]_vars

AddressesOf(insns) == [i \in 1..Len(insns) |-> insns[i].address]
TraceAddresses(pc) == [i \in 1..Len(pc) |-> pc[i].address]
BlockStarts(g) == sorted(DOMAIN g.final_blocks)
BlockIndices(g) == 0..(Len(g.blocks) - 1)

\* C11: in a returned CFG every edge's head and tail are indices of blocks
\* of the blocks list, and every edge recorded while the blocks were built
\* is in the edge list.
C11_EdgesHaveEndpoints ==
    \A only \in BOOLEAN :
        LET g == analyze_cfg(only)
        IN ~g.panicked =>
              /\ \A e \in g.edges : e.head \in BlockIndices(g) /\ e.tail \in BlockIndices(g)
              /\ \A r \in g.final_edges :
                    \E e \in g.edges :
                        /\ BlockStarts(g)[e.head + 1] = r[1]
                        /\ BlockStarts(g)[e.tail + 1] = r[2]

\* a CFG whose last recorded edge leads to the block that was under
\* construction when the trace ended
C11_Witness ==
    LET g == analyze_cfg(FALSE)
    IN /\ ~g.panicked
       /\ TraceAddresses(pc_changes(FALSE)) = <<256, 258, 256, 260>>
       /\ \A c \in DOMAIN instructions : instructions[c] # <<>>
       /\ Len(g.blocks) = 2
       /\ g.edges = {[head |-> 0, tail |-> 0], [head |-> 0, tail |-> 1]}

\* C12: in a returned CFG no instruction address is in the instruction lists
\* of two different blocks.
C12_BlocksDisjoint ==
    \A only \in BOOLEAN :
        LET g == analyze_cfg(only)
        IN ~g.panicked =>
              \A i, j \in 1..Len(g.blocks) :
                  i # j => Range(AddressesOf(g.blocks[i].instructions))
                           \cap Range(AddressesOf(g.blocks[j].instructions)) = {}

\* C13: in a returned CFG of a non-empty filtered trace every block has an
\* instruction and its first instruction is at the block's start address;
\* an empty filtered trace gives no blocks and no edges.
C13_BlocksNonEmpty ==
    \A only \in BOOLEAN :
        LET g == analyze_cfg(only)
        IN ~g.panicked =>
              IF pc_changes(only) = <<>>
              THEN g.blocks = <<>> /\ g.edges = {}
              ELSE /\ Len(g.blocks) >= 1
                   /\ \A k \in 1..Len(g.blocks) :
                         /\ Len(g.blocks[k].instructions) >= 1
                         /\ g.blocks[k].instructions[1].address = BlockStarts(g)[k]

\* a filter that leaves nothing of a non-empty trace, and a trace revisiting
\* a block start
C13_Witness ==
    /\ user_code_ranges # <<>>
    /\ TraceAddresses(pc_changes(FALSE)) = <<260, 256, 258, 256>>
    /\ Len(analyze_cfg(FALSE).blocks) = 2
    /\ Len(analyze_cfg(TRUE).blocks) = 1
    /\ \E n \in 1..Len(changes) : TraceAddresses(pc_changes(TRUE)) = <<256, 258, 256>>

Sequential(pc) ==
    \A i \in 1..(Len(pc) - 1) :
        has_size(pc[i]) /\ pc[i].address + Len(instructions[pc[i].clnum]) = pc[i + 1].address

\* C14: for a filtered trace of two instructions or more where every
\* instruction with a successor has cached bytes and falls through to its
\* successor, analyze_cfg returns one block listing the executed addresses in
\* order, and no edge.
C14_SequentialOneBlock ==
    \A only \in BOOLEAN :
        LET pc == pc_changes(only)
            g == analyze_cfg(only)
        IN (Len(pc) >= 2 /\ Sequential(pc)) =>
              /\ ~g.panicked
              /\ Len(g.blocks) = 1
              /\ AddressesOf(g.blocks[1].instructions) = TraceAddresses(pc)
              /\ g.edges = {}

\* C15: for every consecutive pair (cur, nxt) of the filtered trace where
\* cur, of known size, does not fall through to nxt, the returned CFG has a
\* block that starts at nxt.address and an edge to it from a block that
\* holds cur's address.
C15_BranchEdges ==
    \A only \in BOOLEAN :
        LET pc == pc_changes(only)
            g == analyze_cfg(only)
        IN ~g.panicked =>
              \A i \in 1..(Len(pc) - 1) :
                  (has_size(pc[i])
                   /\ pc[i].address + Len(instructions[pc[i].clnum]) # pc[i + 1].address)
                  => \E h, t \in 1..Len(g.blocks) :
                        /\ BlockStarts(g)[t] = pc[i + 1].address
                        /\ pc[i].address \in Range(AddressesOf(g.blocks[h].instructions))
                        /\ [head |-> h - 1, tail |-> t - 1] \in g.edges

\* C16: the loop 0x100 -> 0x102 -> 0x100 -> 0x102 -> 0x104, every instruction
\* of size 2, gives blocks {0x100, 0x102} and {0x104} and edges (0,0), (0,1).
C16_Loop ==
    LET g == analyze_cfg(FALSE)
    IN (/\ TraceAddresses(pc_changes(FALSE)) = <<256, 258, 256, 258, 260>>
        /\ \A c \in DOMAIN instructions : Len(instructions[c]) = 2)
       => /\ ~g.panicked
          /\ Len(g.blocks) = 2
          /\ AddressesOf(g.blocks[1].instructions) = <<256, 258>>
          /\ AddressesOf(g.blocks[2].instructions) = <<260>>
          /\ g.edges = {[head |-> 0, tail |-> 0], [head |-> 0, tail |-> 1]}

(***************************************************************************)
(* Bias resolution during ingest, and the user-code test that uses it.     *)
(***************************************************************************)
InsnLines == {i \in 1..Len(hist.lines) :
                 hist.lines[i].line.ok /\ hist.lines[i].line.event.kind = "InsnExec"}

\* the step ingests the first InsnExec of the session, and its pc is pc
FirstInsnExec(pc) ==
    /\ InsnLines = {}
    /\ Len(hist'.lines) = Len(hist.lines) + 1
    /\ Last(hist'.lines).line.ok
    /\ Last(hist'.lines).line.event.kind = "InsnExec"
    /\ Last(hist'.lines).line.event.pc = pc

UserCodeQueries == {4198399, 4198400, 4198976, 4202495, 4202496, 88084479, 88085056, 88088575, 88088576}

ExactMatchSeen ==
    /\ entry_point # None
    /\ \E i \in InsnLines : hist.lines[i].line.event.pc = entry_point[1]

\* C18: once an InsnExec whose pc equals the entry point has been ingested
\* the bias is 0, and it is 0 after every later event.
C18_ExactMatchFreezesBias ==
    ExactMatchSeen => bias = 0

(***************************************************************************)
(* The WebSocket handler (server/src/main.rs, handle_socket): one client.  *)
(* ws.state is "none" before the upgrade, "open" while the handler's loop  *)
(* runs and "panicked" once the handler task has panicked; ws.sent lists   *)
(* the messages the handler has written to the socket and ws.rx the number *)
(* of broadcast messages that precede the next one its receiver will see.  *)
(* Each request is answered in one step.                                   *)
(***************************************************************************)
MEM_DUMP_SIZE == 256

unwrap_or(opt, default) == IF opt = None THEN default ELSE opt[1]

u32_min(a, b) == IF a <= b THEN a ELSE b

u32_max(a, b) == IF a >= b THEN a ELSE b

saturating_sub(a, b) == IF a >= b THEN a - b ELSE 0

\* `current + 1` on u32: the overflow check panics (debug profile) or the
\* sum wraps (release profile)
add_one(current) ==
    IF current = U32_MAX THEN {None, Some(0)} ELSE {Some(current + 1)}

StateUpdate(clnum, mem_start) ==
    [type |-> "StateUpdate",
     clnum |-> clnum,
     registers |-> get_registers_at(clnum),
     memory |-> get_memory_at(clnum, mem_start, MEM_DUMP_SIZE),
     memory_addr |-> mem_start,
     disassembly |-> get_disassembly_at(clnum)]

socket_send(msg) == ws' = [ws EXCEPT !.sent = Append(@, msg)]

\* the upgrade: the handler subscribes to the broadcast channel and sends
\* the initial MaxClnum
handle_socket ==
    /\ ws.state = "none"
    /\ ws' = [state |-> "open", sent |-> <<[type |-> "MaxClnum", max |-> max_clnum]>>,
              rx |-> Len(tx)]
    /\ UNCHANGED <<dbvars, max_clnum, conns, tx, taskvars, hist>>

Replies == Len(ws.sent) - 1

QueryState(clnum, memory_addr) ==
    /\ ws.state = "open" /\ Replies < MaxReplies
    /\ socket_send(StateUpdate(clnum, unwrap_or(memory_addr, 0)))
    /\ UNCHANGED <<dbvars, max_clnum, conns, tx, taskvars, hist>>

StepForward(current) ==
    /\ ws.state = "open" /\ Replies < MaxReplies
    /\ \E sum \in add_one(current) :
          IF sum = None
          THEN ws' = [ws EXCEPT !.state = "panicked"]
          ELSE socket_send(StateUpdate(u32_min(sum[1], max_clnum), 0))
    /\ UNCHANGED <<dbvars, max_clnum, conns, tx, taskvars, hist>>

StepBackward(current) ==
    /\ ws.state = "open" /\ Replies < MaxReplies
    /\ socket_send(StateUpdate(u32_max(saturating_sub(current, 1), 1), 0))
    /\ UNCHANGED <<dbvars, max_clnum, conns, tx, taskvars, hist>>

\* request parameters: the ends of the u32 range, small clnums, and one
\* beyond everything the bounded ingest can reach
Currents == {0, 1, 2, U32_MAX - 1, U32_MAX}

WsLines ==
    {[ok |-> TRUE, event |-> InsnExec(4198964, <<144>>, None, RegSnapshot(1))],
     [ok |-> TRUE, event |-> InsnExec(4198965, <<72, 137, 216>>, None, RegSnapshot(2))]}

NextWs ==
    \/ \E k \in 1..MaxConns : accept(k)
    \/ \E k \in 1..MaxConns : end_of_stream(k)
    \/ \E k \in 1..MaxConns, line \in WsLines : ingest_line(k, line)
    \/ handle_socket
    \/ \E clnum \in Currents, memory_addr \in {None, Some(1024)} :
          QueryState(clnum, memory_addr)
    \/ \E current \in Currents : StepForward(current)
    \/ \E current \in Currents : StepBackward(current)

SpecWs == Init /\ [][NextWs]_vars

LastSent == ws.sent[Len(ws.sent)]

\* the handler has written one more message, a StateUpdate, and still runs
Answered ==
    /\ ws'.state = "open"
    /\ Len(ws'.sent) = Len(ws.sent) + 1
    /\ LastSent'.type = "StateUpdate"

\* C19: StepForward{current} answers with a StateUpdate whose clnum is
\* min(current + 1, max) and StepBackward{current} with a StateUpdate whose
\* clnum is max(current - 1, 1), for every current including 0 and the
\* largest u32.  (min(current + 1, max) is written without the sum: it is
\* max when current >= max and current + 1 otherwise.)
C19_StepClamps ==
    [][/\ \A current \in Currents :
             StepForward(current) =>
                /\ Answered
                /\ LastSent'.clnum =
                      IF current >= max_clnum THEN max_clnum ELSE current + 1
       /\ \A current \in Currents :
             StepBackward(current) =>
                /\ Answered
                /\ LastSent'.clnum = IF current >= 2 THEN current - 1 ELSE 1]_vars

\* the request, one of the three kinds, asks for a clnum beyond max_clnum
BeyondMax(clnum) == clnum > max_clnum

StateRequest ==
    \/ \E clnum \in Currents, memory_addr \in {None, Some(1024)} :
          QueryState(clnum, memory_addr)
    \/ \E current \in Currents : StepForward(current)
    \/ \E current \in Currents : StepBackward(current)

\* C20: the StateUpdate answering QueryState, StepForward or StepBackward
\* never carries a clnum greater than the current max_clnum, and a query
\* for a clnum beyond the maximum is answered with the registers, memory
\* and disassembly of the latest state.
C20_ClampedToMax ==
    [][/\ StateRequest =>
             (Answered => LastSent'.clnum <= max_clnum)
       /\ \A clnum \in Currents, memory_addr \in {None, Some(1024)} :
             (QueryState(clnum, memory_addr) /\ BeyondMax(clnum)) =>
                LastSent' = StateUpdate(max_clnum, unwrap_or(memory_addr, 0))]_vars

(***************************************************************************)
(* The change log and the server's maximum clnum.                          *)
(***************************************************************************)
LogTailClnum == IF changes = <<>> THEN 0 ELSE Last(changes).clnum

LogInClnumOrder ==
    \A i, j \in 1..Len(changes) : i <= j => changes[i].clnum <= changes[j].clnum

\* C27: the maximum clnum used by the server (sent in MaxClnum notifications
\* and used to clamp StepForward) equals the clnum of the last change in the
\* change log, 0 when the log is empty, and the log is in non-decreasing
\* clnum order.
C27_MaxClnumIsLogTail ==
    /\ max_clnum = LogTailClnum
    /\ LogInClnumOrder

(***************************************************************************)
(* Memory cell histories.                                                  *)
(***************************************************************************)
HistoryClnums(a) == [i \in 1..Len(memory[a].history) |-> memory[a].history[i][1]]

\* C28: for every memory cell the (clnum, byte) history is strictly
\* increasing in clnum, for add_change calls with non-decreasing clnums,
\* including several memory writes of the same clnum whose byte ranges
\* overlap.
C28_HistoryStrictlyIncreasing ==
    \A a \in DOMAIN memory : IsStrictlyAscending(HistoryClnums(a))

(***************************************************************************)
(* Disassembly specification: a static image at 0x100 or at 0x1100, a bias *)
(* of 0 or 0x1000, and instructions executed at 0x1100, with or without    *)
(* bytes and with or without the tracer's hint.                            *)
(***************************************************************************)
HINT_MOV_VAR ==
    <<"m", "o", "v", " ", "r", "a", "x", ",", " ", "q", "w", "o", "r", "d", " ", "p", "t", "r",
      " ", "[", "r", "b", "p", " ", "-", " ", "0", "x", "1", "0", "]">>

DisasmBytes == {<<>>, NOP, MOV_RAX_VAR, <<0, 0>>}

NextDisasm ==
    \/ \E start_addr \in {256, 4352}, img \in {NOP, MOV_RAX_VAR} :
          load_static_memory(start_addr, img)
    \/ \E b \in {0, 4096} : set_bias(b)
    \/ /\ Len(changes) < MaxInsns
       /\ \E pc \in {4352}, bytes \in DisasmBytes, disasm \in {None, Some(HINT_MOV_VAR)} :
             insn_exec(pc, bytes, disasm)

SpecDisasm == Init /\ [][NextDisasm]_vars

DisasmClnums == 0..(Len(changes) + 1)

\* the START change with the largest clnum <= c (the log of this
\* specification is in increasing clnum order)
StartAt(c) ==
    LET found == {i \in 1..Len(changes) :
                     changes[i].clnum <= c /\ IS_START \in changes[i].flags}
    IN IF found = {} THEN None ELSE Some(changes[MaxOf(found)])

CachedBytesAvailable(change) ==
    /\ change.clnum \in DOMAIN instructions
    /\ ~AllZero(instructions[change.clnum])

HintAvailable(change) == change.clnum \in DOMAIN instructions_disasm

StaticBytes(change) == get_memory_at(change.clnum, change.address - bias, 16)

\* the text the three sources give, in the order of the specification
ResolvedText(c) ==
    IF StartAt(c) = None THEN TEXT_UNKNOWN
    ELSE LET change == StartAt(c)[1]
         IN IF CachedBytesAvailable(change)
            THEN disassemble(change.address, instructions[change.clnum])
            ELSE IF HintAvailable(change) THEN instructions_disasm[change.clnum]
            ELSE IF ~AllZero(StaticBytes(change))
                 THEN disassemble(change.address, StaticBytes(change))
                 ELSE TEXT_UNKNOWN

\* C24: get_disassembly_at(c) takes the START change with the largest
\* clnum <= c and resolves its text from (1) the cached bytes of that clnum,
\* disassembled, else (2) the tracer's hint, else (3) 16 bytes of
\* reconstructed memory at the static address pc - bias, disassembled.
C24_ResolutionOrder ==
    \A c \in DisasmClnums : get_disassembly_at(c) = ResolvedText(c)

HasRbpOperand(text) ==
    \E i \in 1..Len(text) : rbp_match(text, i, "-") # None \/ rbp_match(text, i, "+") # None

\* C25: no text returned by get_disassembly_at, whichever source produced
\* it, contains an operand of the form [rbp - 0xN] or [rbp + 0xN].
C25_Prettified ==
    \A c \in DisasmClnums : ~HasRbpOperand(get_disassembly_at(c))

(***************************************************************************)
(* User-code filter of the CFG: the code image of the CFG specification,   *)
(* executed at its static addresses or 0x1000 above them, a bias of 0 or   *)
(* 0x1000, and the code range [0x100, 0x103).                              *)
(***************************************************************************)
BiasedImage ==
    [a \in DOMAIN CodeImage \cup {a + 4096 : a \in DOMAIN CodeImage} |->
        IF a \in DOMAIN CodeImage THEN CodeImage[a] ELSE CodeImage[a - 4096]]

NextCfgUser ==
    \/ /\ Len(changes) < MaxInsns
       /\ \E pc \in DOMAIN BiasedImage : insn_exec(pc, BiasedImage[pc], None)
    \/ register_code_range(256, 3)
    \/ \E b \in {0, 4096} : set_bias(b)

SpecCfgUser == Init /\ [][NextCfgUser]_vars

\* address minus bias lies in a registered range [start, end)
InRegisteredRange(address) ==
    \E i \in 1..Len(user_code_ranges) :
        /\ user_code_ranges[i][1] <= address - bias
        /\ address - bias < user_code_ranges[i][2]

\* C30: with only_user_code set, every instruction of every block of the
\* returned CFG has an address that is user code (with a range registered:
\* its bias-normalized address is inside a registered range); with no range
\* registered, analyze_cfg(TRUE) returns the blocks and edges of
\* analyze_cfg(FALSE).
C30_OnlyUserCode ==
    LET g == analyze_cfg(TRUE)
    IN /\ user_code_ranges # <<>> =>
             \A k \in 1..Len(g.blocks) :
                 \A n \in 1..Len(g.blocks[k].instructions) :
                     InRegisteredRange(g.blocks[k].instructions[n].address)
       /\ user_code_ranges = <<>> =>
             /\ g.blocks = analyze_cfg(FALSE).blocks
             /\ g.edges = analyze_cfg(FALSE).edges

\* a biased run through user code and through code outside the range: the
\* filtered CFG keeps the two user-code instructions only
C30_Witness ==
    /\ bias = 4096 /\ user_code_ranges = <<<<256, 259>>>>
    /\ TraceAddresses(pc_changes(FALSE)) = <<4352, 4356, 4354>>
    /\ TraceAddresses(pc_changes(TRUE)) = <<4352, 4354>>
    /\ Len(analyze_cfg(TRUE).blocks) = 1
    /\ AddressesOf(analyze_cfg(TRUE).blocks[1].instructions) = <<4352, 4354>>
    /\ Len(analyze_cfg(FALSE).blocks) > 1

(***************************************************************************)
(* The ingest task and the WebSocket handler, one database call at a time. *)
(* Both are tokio tasks on the multi-threaded runtime and share the        *)
(* TraceDB: between two calls of one task the other task may run.  ipc[k]  *)
(* is the position of connection k's task inside an iteration of its loop  *)
(* (no entry: at read_line); query is the position of the handler inside   *)
(* the QueryState arm, with its locals and the guards it holds.            *)
(***************************************************************************)
ipc_at(k, pc) == k \in DOMAIN ipc /\ ipc[k].pc = pc

ipc_goto(k, pc) == ipc' = [ipc EXCEPT ![k].pc = pc]

HeldByQuery == IF query.pc = "idle" THEN {} ELSE query.held

\* main.rs:88-157: read_line, the parse, the counter, max_clnum.store and,
\* for an InsnExec, the bias heuristic
ipc_read_line(k, line) ==
    /\ k \in DOMAIN conns /\ conns[k].state = "open" /\ k \notin DOMAIN ipc
    /\ Len(hist.lines) < MaxEvents
    /\ LET buffer == conns[k].line \o <<line>>
           parsed == from_str(buffer)
           current_clnum == clnum_after(conns[k].current_clnum, parsed)
       IN /\ conns' = [conns EXCEPT ![k].current_clnum = current_clnum,
                                    ![k].line = IF parsed = None
                                                THEN line_cleared(buffer, parsed)
                                                ELSE buffer]
          /\ IF parsed = None
             THEN UNCHANGED <<max_clnum, bias, ipc>>
             ELSE /\ max_clnum' = current_clnum
                  /\ bias' = IF parsed[1].kind = "InsnExec"
                             THEN bias_after(entry_point, bias, parsed[1].pc)
                             ELSE bias
                  /\ ipc' = inserted(ipc, k,
                                     [pc |-> IF parsed[1].kind = "InsnExec"
                                             THEN "add_instruction" ELSE "send_event",
                                      event |-> parsed[1]])
    /\ hist' = [hist EXCEPT !.lines = Append(@, [conn |-> k, line |-> line])]
    /\ UNCHANGED <<changes, memory, registers, access_index, instructions,
                   instructions_disasm, entry_point, user_code_ranges, tx,
                   ws, query, insn_cache>>

\* main.rs:158
ipc_add_instruction(k) ==
    /\ ipc_at(k, "add_instruction")
    /\ instructions' = instruction_added(instructions, conns[k].current_clnum,
                                         ipc[k].event.bytes)
    /\ ipc_goto(k, "add_instruction_disasm")
    /\ UNCHANGED <<changes, memory, registers, access_index,
                   instructions_disasm, entry_point, bias, user_code_ranges,
                   max_clnum, conns, tx, ws, query, insn_cache, hist>>

\* main.rs:159-161
ipc_add_instruction_disasm(k) ==
    /\ ipc_at(k, "add_instruction_disasm")
    /\ instructions_disasm' =
          IF ipc[k].event.disasm # None
          THEN instruction_disasm_added(instructions_disasm, conns[k].current_clnum,
                                        ipc[k].event.disasm[1])
          ELSE instructions_disasm
    /\ ipc_goto(k, "update_registers")
    /\ UNCHANGED <<changes, memory, registers, access_index, instructions,
                   entry_point, bias, user_code_ranges, max_clnum, conns, tx,
                   ws, query, insn_cache, hist>>

\* main.rs:163-165
ipc_update_registers(k) ==
    /\ ipc_at(k, "update_registers")
    /\ registers' =
          IF ipc[k].event.regs # <<>>
          THEN registers_updated(registers, conns[k].current_clnum, ipc[k].event.regs)
          ELSE registers
    /\ ipc_goto(k, "add_change")
    /\ UNCHANGED <<changes, memory, access_index, instructions,
                   instructions_disasm, entry_point, bias, user_code_ranges,
                   max_clnum, conns, tx, ws, query, insn_cache, hist>>

\* main.rs:167-173 and db.rs:206-210: the push under the write lock of the
\* change log, which waits for the readers of the log
ipc_add_change(k) ==
    /\ ipc_at(k, "add_change")
    /\ "changes" \notin HeldByQuery
    /\ changes' = Append(changes, StartChange(ipc[k].event.pc, conns[k].current_clnum))
    /\ ipc_goto(k, "update_indices")
    /\ UNCHANGED <<memory, registers, access_index, instructions,
                   instructions_disasm, entry_point, bias, user_code_ranges,
                   max_clnum, conns, tx, ws, query, insn_cache, hist>>

\* db.rs:212-250: the indices of the change pushed last
ipc_update_indices(k) ==
    /\ ipc_at(k, "update_indices")
    /\ LET change == StartChange(ipc[k].event.pc, conns[k].current_clnum)
       IN /\ memory' = memory_changed(memory, change)
          /\ registers' = registers_changed(registers, change)
          /\ access_index' = index_changed(access_index, change)
    /\ ipc_goto(k, "send_event")
    /\ UNCHANGED <<changes, instructions, instructions_disasm, entry_point,
                   bias, user_code_ranges, max_clnum, conns, tx, ws, query,
                   insn_cache, hist>>

\* main.rs:180-184
ipc_send_event(k) ==
    /\ ipc_at(k, "send_event")
    /\ tx' = Append(tx, [type |-> "TraceEvent", event |-> ipc[k].event])
    /\ ipc_goto(k, "send_max")
    /\ UNCHANGED <<changes, memory, registers, access_index, instructions,
                   instructions_disasm, entry_point, bias, user_code_ranges,
                   max_clnum, conns, ws, query, insn_cache, hist>>

\* main.rs:186-192: the MaxClnum broadcast and line.clear()
ipc_send_max(k) ==
    /\ ipc_at(k, "send_max")
    /\ tx' = Append(tx, [type |-> "MaxClnum", max |-> conns[k].current_clnum])
    /\ conns' = [conns EXCEPT ![k].line = <<>>]
    /\ ipc' = [c \in DOMAIN ipc \ {k} |-> ipc[c]]
    /\ UNCHANGED <<changes, memory, registers, access_index, instructions,
                   instructions_disasm, entry_point, bias, user_code_ranges,
                   max_clnum, ws, query, insn_cache, hist>>

\* db.rs:353-357: the last change of the log that is a START at or before
\* clnum
find_pc_change(log, clnum) ==
    LET found == {i \in 1..Len(log) : log[i].clnum <= clnum /\ IS_START \in log[i].flags}
    IN IF found = {} THEN None ELSE Some(log[MaxOf(found)])

\* main.rs:238-239: the request is read and the registers are looked up
query_state_recv(clnum, memory_addr) ==
    /\ ws.state = "open" /\ query.pc = "idle" /\ Replies < MaxReplies
    /\ query' = [pc |-> "get_memory_at", clnum |-> clnum,
                 mem_start |-> unwrap_or(memory_addr, 0),
                 registers |-> get_registers_at(clnum), memory |-> <<>>,
                 change |-> None, bytes |-> <<>>, disassembly |-> <<>>, held |-> {}]
    /\ UNCHANGED <<changes, memory, registers, access_index, instructions,
                   instructions_disasm, entry_point, bias, user_code_ranges,
                   max_clnum, conns, tx, ws, ipc, insn_cache, hist>>

\* main.rs:241-242
query_get_memory_at ==
    /\ query.pc = "get_memory_at"
    /\ query' = [query EXCEPT !.memory = get_memory_at(query.clnum, query.mem_start,
                                                       MEM_DUMP_SIZE),
                              !.pc = "get_disassembly_at"]
    /\ UNCHANGED <<changes, memory, registers, access_index, instructions,
                   instructions_disasm, entry_point, bias, user_code_ranges,
                   max_clnum, conns, tx, ws, ipc, insn_cache, hist>>

\* db.rs:349-357: the read guard of the change log is taken and kept
query_find_change ==
    /\ query.pc = "get_disassembly_at"
    /\ LET pc_change == find_pc_change(changes, query.clnum)
       IN query' = IF pc_change = None
                   THEN [query EXCEPT !.held = {"changes"}, !.disassembly = TEXT_UNKNOWN,
                                      !.pc = "return"]
                   ELSE [query EXCEPT !.held = {"changes"}, !.change = pc_change,
                                      !.pc = "resolve"]
    /\ UNCHANGED <<changes, memory, registers, access_index, instructions,
                   instructions_disasm, entry_point, bias, user_code_ranges,
                   max_clnum, conns, tx, ws, ipc, insn_cache, hist>>

\* db.rs:304-313: disassemble up to the look-up in the instruction cache
disassemble_entered(q, address, bytes) ==
    IF bytes = <<>> THEN [q EXCEPT !.disassembly = TEXT_DOTS, !.pc = "return"]
    ELSE IF <<address, bytes>> \in DOMAIN insn_cache
         THEN [q EXCEPT !.disassembly = insn_cache[<<address, bytes>>], !.pc = "return"]
         ELSE [q EXCEPT !.bytes = bytes, !.pc = "lock_disassembler"]

\* db.rs:359-377: the source of the text; the reference into the
\* instruction map lives as long as the call of disassemble it feeds
query_resolve ==
    /\ query.pc = "resolve"
    /\ LET change == query.change[1]
           cached == change.clnum \in DOMAIN instructions
                     /\ instructions[change.clnum] # <<>>
                     /\ ~AllZero(instructions[change.clnum])
           static_bytes == get_memory_at(change.clnum, change.address, 16)
       IN query' =
             IF cached
             THEN disassemble_entered([query EXCEPT !.held = @ \cup {"instructions"}],
                                      change.address, instructions[change.clnum])
             ELSE IF change.clnum \in DOMAIN instructions_disasm
                  THEN [query EXCEPT !.disassembly = instructions_disasm[change.clnum],
                                     !.pc = "return"]
                  ELSE IF ~AllZero(static_bytes)
                       THEN disassemble_entered(query, change.address, static_bytes)
                       ELSE [query EXCEPT !.disassembly = TEXT_UNKNOWN, !.pc = "return"]
    /\ UNCHANGED <<changes, memory, registers, access_index, instructions,
                   instructions_disasm, entry_point, bias, user_code_ranges,
                   max_clnum, conns, tx, ws, ipc, insn_cache, hist>>

\* db.rs:314-316: self.disassembler.lock()
query_lock_disassembler ==
    /\ query.pc = "lock_disassembler"
    /\ query' = [query EXCEPT !.held = @ \cup {"disassembler"}, !.pc = "disassembled"]
    /\ UNCHANGED <<changes, memory, registers, access_index, instructions,
                   instructions_disasm, entry_point, bias, user_code_ranges,
                   max_clnum, conns, tx, ws, ipc, insn_cache, hist>>

\* db.rs:317-324: the text, the unlock, the prettifier and the cache insert
query_disassembled ==
    /\ query.pc = "disassembled"
    /\ LET text == disassemble(query.change[1].address, query.bytes)
       IN /\ query' = [query EXCEPT !.held = @ \ {"disassembler"}, !.disassembly = text,
                                    !.pc = "return"]
          /\ insn_cache' = inserted(insn_cache, <<query.change[1].address, query.bytes>>,
                                    text)
    /\ UNCHANGED <<changes, memory, registers, access_index, instructions,
                   instructions_disasm, entry_point, bias, user_code_ranges,
                   max_clnum, conns, tx, ws, ipc, hist>>

\* get_disassembly_at returns: its guards are dropped
query_return ==
    /\ query.pc = "return"
    /\ query' = [query EXCEPT !.held = {}, !.pc = "send"]
    /\ UNCHANGED <<changes, memory, registers, access_index, instructions,
                   instructions_disasm, entry_point, bias, user_code_ranges,
                   max_clnum, conns, tx, ws, ipc, insn_cache, hist>>

\* main.rs:243-253
query_send ==
    /\ query.pc = "send"
    /\ socket_send([type |-> "StateUpdate",
                    clnum |-> query.clnum,
                    registers |-> query.registers,
                    memory |-> query.memory,
                    memory_addr |-> query.mem_start,
                    disassembly |-> query.disassembly])
    /\ query' = [pc |-> "idle"]
    /\ UNCHANGED <<changes, memory, registers, access_index, instructions,
                   instructions_disasm, entry_point, bias, user_code_ranges,
                   max_clnum, conns, tx, ipc, insn_cache, hist>>

\* the tracer's events: two instructions that differ in bytes and registers
ConcLines ==
    {[ok |-> TRUE, event |-> InsnExec(4198964, NOP, None, RegSnapshot(1))],
     [ok |-> TRUE, event |-> InsnExec(4198965, MOV_RAX_RBX, None, RegSnapshot(2))],
     [ok |-> TRUE, event |-> [kind |-> "Init"]]}

NextConc ==
    \/ accept(1)
    \/ \E line \in ConcLines : ipc_read_line(1, line)
    \/ ipc_add_instruction(1)
    \/ ipc_add_instruction_disasm(1)
    \/ ipc_update_registers(1)
    \/ ipc_add_change(1)
    \/ ipc_update_indices(1)
    \/ ipc_send_event(1)
    \/ ipc_send_max(1)
    \/ handle_socket
    \/ \E clnum \in 1..MaxEvents, memory_addr \in {None} :
          query_state_recv(clnum, memory_addr)
    \/ query_get_memory_at
    \/ query_find_change
    \/ query_resolve
    \/ query_lock_disassembler
    \/ query_disassembled
    \/ query_return
    \/ query_send

SpecConc == Init /\ [][NextConc]_vars

\* the clnums of the entries of the register histories
RegisterClnums ==
    UNION {{registers[r][i][1] : i \in 1..Len(registers[r])} : r \in 1..Len(registers)}

StartClnums == {changes[i].clnum : i \in StartChanges}

\* C26: no reachable state has a register-history entry or an
\* instruction-cache entry with clnum c while the log holds no START change
\* with clnum c: the START change of an InsnExec is visible before every
\* other effect recorded at its clnum.
C26_StartFirst ==
    \A c \in RegisterClnums \cup DOMAIN instructions \cup DOMAIN instructions_disasm :
        c \in StartClnums

\* C29: the clnums that have an instruction-cache entry (bytes or hint) are
\* a subset of the clnums that carry a START change in the change log.
C29_CacheKeysAreStarts ==
    (DOMAIN instructions \cup DOMAIN instructions_disasm) \subseteq StartClnums

\* C23: the disassembler mutex is never held together with another guard:
\* a task that locks the disassembler holds no other lock at that moment.
C23_DisassemblerNeverNested ==
    "disassembler" \in HeldByQuery => HeldByQuery = {"disassembler"}

\* the database after the first n ingested lines have been applied in full
\* (the lines of this specification are well formed: line i is clnum i)
applied(db, event, clnum) ==
    IF event.kind # "InsnExec" THEN db
    ELSE LET change == StartChange(event.pc, clnum)
         IN [changes |-> Append(db.changes, change),
             instructions |-> instruction_added(db.instructions, clnum, event.bytes),
             instructions_disasm |->
                 IF event.disasm # None
                 THEN instruction_disasm_added(db.instructions_disasm, clnum, event.disasm[1])
                 ELSE db.instructions_disasm,
             registers |->
                 registers_changed(IF event.regs # <<>>
                                   THEN registers_updated(db.registers, clnum, event.regs)
                                   ELSE db.registers,
                                   change),
             memory |-> memory_changed(db.memory, change)]

RECURSIVE PrefixDB(_)
PrefixDB(n) ==
    IF n = 0
    THEN [changes |-> <<>>, instructions |-> EmptyMap, instructions_disasm |-> EmptyMap,
          registers |-> [r \in 1..REG_COUNT |-> <<>>], memory |-> EmptyMap]
    ELSE applied(PrefixDB(n - 1), hist.lines[n].line.event, n)

registers_at(regs, clnum) ==
    [r \in 1..Len(regs) |->
        LET idx == partition_point(regs[r], clnum)
        IN IF idx = 0 THEN 0 ELSE regs[r][idx][2]]

\* the answer to QueryState{clnum, memory_addr} computed from prefix n
AnswerFrom(n, clnum, mem_start) ==
    LET db == PrefixDB(n)
    IN [type |-> "StateUpdate",
        clnum |-> clnum,
        registers |-> registers_at(db.registers, clnum),
        memory |-> memory_at(db.memory, clnum, mem_start, MEM_DUMP_SIZE),
        memory_addr |-> mem_start,
        disassembly |-> disassembly_at(db.changes, db.instructions, db.instructions_disasm,
                                       db.memory, clnum)]

\* C22: every StateUpdate answering a QueryState equals, in registers,
\* memory and disassembly together, the answer computed from one prefix of
\* the ingested event sequence.
C22_ConsistentSnapshot ==
    \A i \in 1..Len(ws.sent) :
        ws.sent[i].type = "StateUpdate" =>
            \E n \in 0..Len(hist.lines) :
                ws.sent[i] = AnswerFrom(n, ws.sent[i].clnum, ws.sent[i].memory_addr)

(***************************************************************************)
(* The broadcast channel (main.rs:53, tokio::sync::broadcast::channel(100))*)
(* keeps the last CHANNEL_CAPACITY messages.  A receiver whose next        *)
(* message has been overwritten gets RecvError::Lagged from recv and is    *)
(* moved to the oldest message still kept.                                 *)
(***************************************************************************)
CHANNEL_CAPACITY == 100

\* main.rs:403-409: the rx.recv() branch of the handler's select; only
\* Ok(msg) is written to the socket
relay ==
    /\ ws.state = "open" /\ ws.rx < Len(tx)
    /\ ws' = IF ws.rx < Len(tx) - CHANNEL_CAPACITY
             THEN [ws EXCEPT !.rx = Len(tx) - CHANNEL_CAPACITY]
             ELSE [ws EXCEPT !.rx = @ + 1, !.sent = Append(@, tx[ws.rx + 1])]
    /\ UNCHANGED <<dbvars, max_clnum, conns, tx, taskvars, hist>>

\* a client is connected, a tracer sends a burst of events, and the handler
\* relays whenever it gets to it
NextRelay ==
    \/ handle_socket
    \/ accept(1)
    \/ /\ ws.state = "open" /\ Len(hist.lines) < MaxBurst
       /\ ingest_step(1, [ok |-> TRUE, event |-> [kind |-> "Init"]])
    \/ relay

SpecRelay == Init /\ [][NextRelay]_vars /\ WF_vars(relay)

\* the messages relayed to the client, after the initial MaxClnum
Relayed == SubSeq(ws.sent, 2, Len(ws.sent))

\* C21: every event ingested while the client is connected is eventually
\* delivered to it as a TraceEvent message followed by the MaxClnum of its
\* clnum, in ingest order: what has been relayed is at any time the
\* beginning of what has been broadcast since the client connected, and
\* again and again all of it.
C21_EventuallyDelivered ==
    /\ [](ws.state = "open" =>
             /\ Len(Relayed) <= Len(tx)
             /\ Relayed = SubSeq(tx, 1, Len(Relayed)))
    /\ []<>(ws.state = "open" => Relayed = tx)

(***************************************************************************)
(* The assembled CFG (cfg.rs:196-225).                                     *)
(***************************************************************************)
\* the recorded edges whose two endpoints are keys of final_blocks: one
\* element of graph_edges is pushed for each of them
KeptEdges(g) ==
    {e \in g.final_edges : e[1] \in DOMAIN g.final_blocks /\ e[2] \in DOMAIN g.final_blocks}

StartOf(block) == block.instructions[1].address

\* C31: in every returned CFG blocks[i].index = i, the blocks are in
\* strictly increasing order of starting address, and no two elements of
\* the edge list have the same (head, tail) pair: the edges pushed, one per
\* kept recorded edge, are as many as their distinct (head, tail) pairs.
C31_DenseSortedUnique ==
    \A only \in BOOLEAN :
        LET g == analyze_cfg(only)
        IN ~g.panicked =>
              /\ \A k \in 1..Len(g.blocks) : g.blocks[k].index = k - 1
              /\ \A k \in 1..(Len(g.blocks) - 1) :
                    StartOf(g.blocks[k]) < StartOf(g.blocks[k + 1])
              /\ Cardinality(g.edges) = Cardinality(KeptEdges(g))

\* a trace that enters the code at 0x104 and then runs 0x100, 0x102, 0x104:
\* the block visited second is block 0, and the two edges are (1,0), (0,1)
C31_Witness ==
    LET g == analyze_cfg(FALSE)
    IN /\ ~g.panicked
       /\ TraceAddresses(pc_changes(FALSE)) = <<260, 256, 258, 260>>
       /\ \A c \in DOMAIN instructions : instructions[c] # <<>>
       /\ Len(g.blocks) = 2
       /\ StartOf(g.blocks[1]) = 256 /\ StartOf(g.blocks[2]) = 260
       /\ g.edges = {[head |-> 1, tail |-> 0], [head |-> 0, tail |-> 1]}

\* C32: for every consecutive pair (cur, nxt) of the filtered trace where
\* cur has no cached bytes, the returned CFG has a block whose last
\* instruction is cur, a block that starts at nxt.address, and an edge from
\* the former to the latter, also when the two are the same block.
C32_UnknownSizeTerminates ==
    \A only \in BOOLEAN :
        LET pc == pc_changes(only)
            g == analyze_cfg(only)
        IN ~g.panicked =>
              \A i \in 1..(Len(pc) - 1) :
                  ~has_size(pc[i])
                  => \E h, t \in 1..Len(g.blocks) :
                        /\ Last(g.blocks[h].instructions).address = pc[i].address
                        /\ BlockStarts(g)[t] = pc[i + 1].address
                        /\ [head |-> h - 1, tail |-> t - 1] \in g.edges

\* C39: every address of the filtered trace is in the instruction list of
\* some block of the returned CFG.
C39_Coverage ==
    \A only \in BOOLEAN :
        LET pc == pc_changes(only)
            g == analyze_cfg(only)
        IN ~g.panicked =>
              \A i \in 1..Len(pc) :
                  \E k \in 1..Len(g.blocks) :
                      pc[i].address \in Range(AddressesOf(g.blocks[k].instructions))

(***************************************************************************)
(* The bytes of one memory write (db.rs:215-231).                          *)
(***************************************************************************)
\* the step appends a MEM+WRITE change to the log
MemWriteAdded ==
    /\ Len(changes') = Len(changes) + 1
    /\ IS_MEM \in Last(changes').flags /\ IS_WRITE \in Last(changes').flags

\* u64::from_le_bytes of the first bytes of a buffer
RECURSIVE from_le_bytes(_)
from_le_bytes(bytes) ==
    IF bytes = <<>> THEN 0 ELSE bytes[1] + 256 * from_le_bytes(Tail(bytes))

\* D mod 2^s; payloads are narrowed to 31 bits, so a width of 32 bits or
\* more keeps the payload
Truncated(data, bits) == IF bits >= 31 THEN data ELSE data % (2 ^ bits)

UncollapsedHistory(r) ==
    LET Writes(call) == r \in DOMAIN call.writes
        calls == SelectSeq(hist.reg_calls, Writes)
    IN [i \in 1..Len(calls) |-> <<calls[i].clnum, calls[i].writes[r]>>]

UncollapsedRegisters == [r \in 1..Len(registers) |-> UncollapsedHistory(r - 1)]

\* C36: for every clnum and every register, get_registers_at on the
\* histories kept by update_registers, which skips a value equal to the last
\* recorded one, returns what it returns on histories that record the value
\* of every snapshot.
C36_DedupTransparent ==
    \A c \in 0..MaxClnum : get_registers_at(c) = registers_at(UncollapsedRegisters, c)

SnapshotCalls ==
    {i \in 1..Len(hist.reg_calls) : hist.reg_calls[i].op = "update_registers"}

\* three snapshots at clnums 1, 2, 3 giving register 0 the values 5, 5, 7:
\* the second is not recorded, and every clnum reads the same either way
C36_Witness ==
    /\ SnapshotCalls = {1, 2, 3}
    /\ \A i \in 1..3 : hist.reg_calls[i].clnum = i
    /\ UncollapsedHistory(0) = <<<<1, 5>>, <<2, 5>>, <<3, 7>>>>
    /\ registers[1] = <<<<1, 5>>, <<3, 7>>>>
    /\ get_registers_at(2)[1] = 5 /\ get_registers_at(3)[1] = 7

(***************************************************************************)
(* Register inputs of a group whose bytes are not known (db.rs:567-589).   *)
(***************************************************************************)
\* neither an instruction-cache entry for the clnum of the step nor a cell
\* of memory in the 16 bytes read at pc - bias
BytesUnobtainable(step) ==
    LET pc == group_pc(step.group)
    IN /\ pc # 0
       /\ step.clnum \notin DOMAIN instructions
       /\ \A i \in 0..15 : (pc - bias + i) \notin DOMAIN memory

\* C33: a relevant group whose instruction bytes cannot be obtained
\* contributes no register to tainted_regs.
C33_NoFabricatedReads ==
    \A c0 \in QueryClnums, t \in SliceTargets :
        LET run == SliceRun(c0, t)
        IN \A j \in 1..Len(run.steps) :
              (run.steps[j].relevant /\ BytesUnobtainable(run.steps[j]))
              => run.steps[j].reg_inputs = {}

\* C37: when a group is processed that holds a MEM+WRITE change covering a
\* byte b of tainted_mem, the group is marked relevant and the next group
\* is processed with b out of tainted_mem (unless the group itself reads b
\* again), whichever byte of the write b is.
C37_AnyByteIntersects ==
    \A c0 \in QueryClnums, t \in SliceTargets :
        LET run == SliceRun(c0, t)
        IN \A j \in 1..Len(run.steps) :
              LET step == run.steps[j]
              IN \A b \in step.tainted_mem :
                    (\E g \in Range(step.group) : IsMemWrite(g) /\ b \in BytesOf(g))
                    => /\ step.relevant
                       /\ \/ j = Len(run.steps)
                          \/ b \notin run.steps[j + 1].tainted_mem
                          \/ \E g \in Range(step.group) : IsMemRead(g) /\ g.address = b

(***************************************************************************)
(* The grouping of the reverse walk (db.rs:523-630).                       *)
(***************************************************************************)
\* the clnums of the log that a walk from c0 may look at
WalkClnums(c0) == {changes[i].clnum : i \in {x \in 1..Len(changes) : changes[x].clnum <= c0}}

GroupOf(k) == SelectSeq(changes, LAMBDA ch : ch.clnum = k)

\* C34: the returned list is strictly increasing; the groups processed are
\* the groups of the log, each at most once and each with the changes of
\* its clnum and no others, and all of them when the walk exhausts the log;
\* and the first-executed instruction, when it writes a location tainted at
\* that point, is in the list exactly once.
C34_GroupsOnce ==
    \A c0 \in QueryClnums, t \in SliceTargets :
        LET run == SliceRun(c0, t)
            ks == WalkClnums(c0)
        IN /\ \A x, y \in 1..Len(run.slice) : x < y => run.slice[x] < run.slice[y]
           /\ \A x, y \in 1..Len(run.steps) : x < y => run.steps[x].clnum > run.steps[y].clnum
           /\ \A j \in 1..Len(run.steps) :
                 Reverse(run.steps[j].group) = GroupOf(run.steps[j].clnum)
           /\ ~run.broke => \A k \in ks : \E j \in 1..Len(run.steps) : run.steps[j].clnum = k
           /\ \A k \in ks :
                 (/\ \A m \in ks : k <= m
                  /\ ~run.broke
                  /\ \E j \in 1..Len(run.steps) :
                        run.steps[j].clnum = k /\ TaintedWriteAt(k, run.steps[j]))
                 => Cardinality({x \in 1..Len(run.slice) : run.slice[x] = k}) = 1

(***************************************************************************)
(* TraceDB::get_trace_log (db.rs:383-485).  The counters are u32; an       *)
(* addition that overflows panics in a build with overflow checks and      *)
(* wraps in one without, so the build is a parameter of the function.      *)
(***************************************************************************)
SCAN_LIMIT == 100000

u32_overflows(a, b) == a > U32_MAX - b
u32_wrapping_add(a, b) == IF u32_overflows(a, b) THEN a - (U32_MAX - b) - 1 ELSE a + b

\* line 389: the clnum of the last change of the log
last_clnum_of(log) == IF log = <<>> THEN 0 ELSE Last(log).clnum

\* lines 394-397: the first START change of clnum c
find_start_change(log, c) ==
    LET hits == {i \in 1..Len(log) : log[i].clnum = c /\ IS_START \in log[i].flags}
    IN IF hits = {} THEN None ELSE Some(log[CHOOSE i \in hits : \A j \in hits : i <= j])

\* lines 401-429: bytes unless empty or all zero, then the tracer's text,
\* then the memory at the static address
trace_disassembly(c, change) ==
    IF c \in DOMAIN instructions /\ instructions[c] # <<>>
       /\ ~(\A i \in 1..Len(instructions[c]) : instructions[c][i] = 0)
    THEN disassemble(change.address, instructions[c])
    ELSE IF c \in DOMAIN instructions_disasm THEN instructions_disasm[c]
    ELSE disassemble(change.address, get_memory_at(c, as_u64(change.address - bias), 16))

\* lines 433-461: the first register write and the first memory access
first_of(log, c, Test(_)) ==
    LET hits == {i \in 1..Len(log) : log[i].clnum = c /\ Test(log[i])}
    IN IF hits = {} THEN None ELSE Some(log[CHOOSE i \in hits : \A j \in hits : i <= j])

trace_entry(log, c, change) ==
    LET IsRegDiff(ch) == IS_MEM \notin ch.flags /\ IS_START \notin ch.flags /\ IS_WRITE \in ch.flags
        IsMem(ch) == IS_MEM \in ch.flags
        rd == first_of(log, c, IsRegDiff)
        ma == first_of(log, c, IsMem)
    IN [clnum |-> c, address |-> change.address,
        disassembly |-> trace_disassembly(c, change),
        reg_diff |-> IF rd = None THEN None ELSE Some(<<rd[1].address \div 8, rd[1].data>>),
        mem_access |-> IF ma = None THEN None
                       ELSE Some(<<ma[1].address, ma[1].data, IS_WRITE \in ma[1].flags>>)]

\* lines 392-483: one iteration of the while loop at st.c
trace_iteration(st, log, start, only_user_code, checked) ==
    LET found == find_start_change(log, st.c)
        hit == found # None /\ (~only_user_code \/ is_user_code(found[1].address))
        entries == IF hit THEN Append(st.entries, trace_entry(log, st.c, found[1]))
                   ELSE st.entries
        wrapped == u32_overflows(st.c, 1)
        c1 == u32_wrapping_add(st.c, 1)
    IN IF checked /\ (wrapped \/ u32_overflows(start, SCAN_LIMIT))
       THEN [st EXCEPT !.entries = entries, !.panicked = TRUE]
       ELSE IF wrapped /\ st.at_wrap = Len(entries)
       THEN [st EXCEPT !.entries = entries, !.diverged = TRUE]
       ELSE [st EXCEPT !.entries = entries,
                       !.c = c1,
                       !.at_wrap = IF wrapped THEN Len(entries) ELSE @,
                       !.broke = c1 > u32_wrapping_add(start, SCAN_LIMIT) /\ entries = <<>>]

\* the iterations from st.c up to, not including, clnum t find no START
\* change: each adds 1 to c and tests the scan limit
trace_skip(st, t, start, checked) ==
    IF checked /\ u32_overflows(start, SCAN_LIMIT) THEN [st EXCEPT !.panicked = TRUE]
    ELSE IF st.entries = <<>> /\ t > u32_wrapping_add(start, SCAN_LIMIT)
    THEN [st EXCEPT !.broke = TRUE]
    ELSE [st EXCEPT !.c = t]

\* the while loop; runs of clnums without START change are taken at once.
\* `diverged' is set when the counter wraps a second time with nothing
\* collected in between: the loop is then back in a state it was in
RECURSIVE trace_loop(_, _, _, _, _, _)
trace_loop(st, log, start, count, only_user_code, checked) ==
    LET max == last_clnum_of(log)
        later == {log[i].clnum : i \in {j \in 1..Len(log) :
                      IS_START \in log[j].flags /\ log[j].clnum > st.c /\ log[j].clnum <= max}}
        stop == IF max = U32_MAX THEN U32_MAX ELSE max + 1
        t == IF later = {} THEN stop ELSE CHOOSE k \in later : \A m \in later : k <= m
    IN IF st.panicked \/ st.diverged \/ st.broke THEN st
       ELSE IF ~(Len(st.entries) < count /\ st.c <= max) THEN st
       ELSE IF find_start_change(log, st.c) # None \/ st.c = U32_MAX
       THEN trace_loop(trace_iteration(st, log, start, only_user_code, checked),
                       log, start, count, only_user_code, checked)
       ELSE trace_loop(trace_skip(st, t, start, checked),
                       log, start, count, only_user_code, checked)

get_trace_log(start, count, only_user_code, checked) ==
    trace_loop([c |-> start, entries |-> <<>>, at_wrap |-> -1,
                panicked |-> FALSE, diverged |-> FALSE, broke |-> FALSE],
               changes, start, count, only_user_code, checked)

(***************************************************************************)
(* Trace-log specification: instruction starts at strictly increasing      *)
(* clnums with gaps, some outside the registered code range, and register  *)
(* writes of the instruction that started last.                            *)
(***************************************************************************)
TraceClnums == {1, 2, SCAN_LIMIT + 2, U32_MAX}

NextTrace ==
    \/ \E c \in {k \in TraceClnums : k > LastClnum}, pc \in {256, 512} :
          add_change(Change(pc, 0, c, {IS_VALID, IS_START}, 0))
    \/ changes # <<>> /\ add_change(Change(0, 7, LastClnum, {IS_VALID, IS_WRITE}, 0))
    \/ register_code_range(256, 3)

SpecTrace == Init /\ [][NextTrace]_vars

TraceStarts == {0, 1, 2, U32_MAX - SCAN_LIMIT, U32_MAX}
TraceCounts == 0..2

\* the clnums from start on that carry a START change passing the filter
Available(start, only_user_code) ==
    {changes[i].clnum : i \in {j \in StartChanges :
        /\ changes[j].clnum >= start
        /\ (~only_user_code \/ is_user_code(changes[j].address))}}

EntryClnums(entries) == [i \in 1..Len(entries) |-> entries[i].clnum]

\* C40: for every start, count and filter, in either build, get_trace_log
\* returns, and the clnums of its entries are the first min(count,
\* available) of the clnums >= start that carry a START change passing the
\* filter, in increasing order.
C40_TraceLogComplete ==
    \A start \in TraceStarts, count \in TraceCounts, only \in BOOLEAN, checked \in BOOLEAN :
        LET r == get_trace_log(start, count, only, checked)
            avail == sorted(Available(start, only))
            n == IF count < Len(avail) THEN count ELSE Len(avail)
        IN /\ ~r.panicked
           /\ ~r.diverged
           /\ EntryClnums(r.entries) = SubSeq(avail, 1, n)

(***************************************************************************)
(* The read-write lock of the change log (parking_lot::RwLock, db.rs:53)   *)
(* between the ingest task and the calls a websocket handler makes.  A     *)
(* writer that finds the lock read-held parks, and a parked writer keeps   *)
(* new readers out until it has had the lock.                              *)
(***************************************************************************)
WriterParked == \E k \in DOMAIN ipc : ipc[k].pc = "parked"

\* db.rs:208: changes.write() finds a read guard out and parks
ipc_add_change_parked(k) ==
    /\ ipc_at(k, "add_change")
    /\ "changes" \in HeldByQuery
    /\ ipc_goto(k, "parked")
    /\ UNCHANGED <<dbvars, max_clnum, conns, tx, ws, query, insn_cache, hist>>

\* db.rs:208-209: the last read guard is gone, the parked writer pushes
ipc_add_change_unparked(k) ==
    /\ ipc_at(k, "parked")
    /\ "changes" \notin HeldByQuery
    /\ changes' = Append(changes, StartChange(ipc[k].event.pc, conns[k].current_clnum))
    /\ ipc_goto(k, "update_indices")
    /\ UNCHANGED <<memory, registers, access_index, instructions,
                   instructions_disasm, entry_point, bias, user_code_ranges,
                   max_clnum, conns, tx, ws, query, insn_cache, hist>>

CallKinds == {"analyze_cfg", "get_slice", "get_trace_log", "get_disassembly_at"}

\* main.rs:233-237: a client message is read and its handler entered
call_recv(kind) ==
    /\ ws.state = "open" /\ query.pc = "idle" /\ Replies < MaxReplies
    /\ query' = [pc |-> "changes_read", kind |-> kind, held |-> {}, left |-> 0,
                 clnums |-> <<>>, entries |-> <<>>, reply |-> None]
    /\ UNCHANGED <<dbvars, max_clnum, conns, tx, ws, ipc, insn_cache, hist>>

\* cfg.rs:7, db.rs:349, 384, 507: let changes = self.changes.read(); pass 2
\* of analyze_cfg then calls get_disassembly_at once per filtered change
call_changes_read ==
    /\ query.pc = "changes_read"
    /\ ~WriterParked
    /\ query' = [query EXCEPT !.held = {"changes"},
                              !.left = IF query.kind = "analyze_cfg"
                                       THEN Len(pc_changes(FALSE)) ELSE 0,
                              !.pc = "scan"]
    /\ UNCHANGED <<dbvars, max_clnum, conns, tx, ws, ipc, insn_cache, hist>>

\* cfg.rs:147 -> db.rs:349: changes.read() again, the first guard still held
call_get_disassembly_at ==
    /\ query.pc = "scan" /\ query.left > 0
    /\ ~WriterParked
    /\ query' = [query EXCEPT !.pc = "nested"]
    /\ UNCHANGED <<dbvars, max_clnum, conns, tx, ws, ipc, insn_cache, hist>>

\* db.rs:381: get_disassembly_at returns, its guard is dropped
call_disassembly_returned ==
    /\ query.pc = "nested"
    /\ query' = [query EXCEPT !.left = @ - 1, !.pc = "scan"]
    /\ UNCHANGED <<dbvars, max_clnum, conns, tx, ws, ipc, insn_cache, hist>>

\* the call returns and drops its guard; the log is as it was when the
\* guard was taken.  The graph of a CFG reply is analyze_cfg of the
\* filtered trace, which stands for it in the message
call_return ==
    /\ query.pc = "scan" /\ query.left = 0
    /\ query' =
          CASE query.kind = "analyze_cfg" ->
                 [query EXCEPT !.held = {}, !.pc = "send",
                    !.reply = Some([type |-> "CFG",
                                    trace |-> TraceAddresses(pc_changes(FALSE))])]
            [] query.kind = "get_trace_log" ->
                 [query EXCEPT !.held = {}, !.pc = "send",
                    !.reply = Some([type |-> "TraceLog",
                                    entries |-> get_trace_log(1, 2, FALSE, TRUE).entries])]
            [] query.kind = "get_disassembly_at" ->
                 [query EXCEPT !.held = {}, !.pc = "send",
                    !.reply = Some(StateUpdate(1, 0))]
            [] query.kind = "get_slice" ->
                 [query EXCEPT !.held = {}, !.pc = "slice_entries",
                    !.clnums = get_slice(MaxEvents, <<"r", "a", "x">>)]
    /\ UNCHANGED <<dbvars, max_clnum, conns, tx, ws, ipc, insn_cache, hist>>

\* main.rs:375-381: get_trace_log(c, 1, false) for the next clnum of the
\* slice, a read guard taken and dropped within the call
call_slice_entry ==
    /\ query.pc = "slice_entries"
    /\ IF query.clnums = <<>>
       THEN query' = [query EXCEPT !.pc = "send",
                         !.reply = Some([type |-> "Slice", entries |-> query.entries])]
       ELSE /\ ~WriterParked
            /\ LET log == get_trace_log(Head(query.clnums), 1, FALSE, TRUE).entries
               IN query' = [query EXCEPT !.clnums = Tail(@),
                               !.entries = IF log = <<>> THEN @ ELSE Append(@, log[1])]
    /\ UNCHANGED <<dbvars, max_clnum, conns, tx, ws, ipc, insn_cache, hist>>

\* socket.send(Message::Text(json))
call_send ==
    /\ query.pc = "send"
    /\ socket_send(query.reply[1])
    /\ query' = [pc |-> "idle"]
    /\ UNCHANGED <<dbvars, max_clnum, conns, tx, ipc, insn_cache, hist>>

\* the steps of the ingest task of connection 1 and of the websocket task
NextLock ==
    \/ accept(1)
    \/ \E line \in ConcLines : ipc_read_line(1, line)
    \/ ipc_add_instruction(1)
    \/ ipc_add_instruction_disasm(1)
    \/ ipc_update_registers(1)
    \/ ipc_add_change(1)
    \/ ipc_add_change_parked(1)
    \/ ipc_add_change_unparked(1)
    \/ ipc_update_indices(1)
    \/ ipc_send_event(1)
    \/ ipc_send_max(1)
    \/ handle_socket
    \/ \E kind \in CallKinds : call_recv(kind)
    \/ call_changes_read
    \/ call_get_disassembly_at
    \/ call_disassembly_returned
    \/ call_return
    \/ call_slice_entry
    \/ call_send

SpecLock == Init /\ [][NextLock]_vars

\* the call of the handler is at a changes.read() that the parked writer
\* keeps it from taking
CallBlocked ==
    /\ WriterParked
    /\ \/ query.pc = "changes_read"
       \/ query.pc = "scan" /\ query.left > 0
       \/ query.pc = "slice_entries" /\ query.clnums # <<>>

\* the parked writer waits for a read guard that the handler's call holds
WriterBlocked == WriterParked /\ "changes" \in HeldByQuery

\* C38: the ingest task and a call of analyze_cfg, get_slice, get_trace_log
\* or get_disassembly_at never wait for each other: in no state is the call
\* kept from a read guard by the parked add_change while add_change waits
\* for a guard the call holds, a state from which the call never returns
\* and add_change never completes.
C38_NoDeadlock == ~(CallBlocked /\ WriterBlocked)

====
